---- MODULE Spec2Model ----
(***************************************************************************)
(* A model of the czi_stitcher pipeline (src/czi_stitcher/processors.py):  *)
(* tiles_to_stacks, make_shading_profiles, stitch_image, merge_channels,   *)
(* process_image and main, over an explicit file system.  The format       *)
(* reader/writer, the external batch tool and the stitching engine are     *)
(* collaborators: their calls are counted and their outcomes (success, an  *)
(* I/O failure) are chosen nondeterministically.                           *)
(***************************************************************************)
EXTENDS Integers, Sequences, FiniteSets, TLC

(***************************************************************************)
(* Bounds of the model.                                                    *)
(***************************************************************************)
MaxSeries == 2
MaxPlanes == 2
MaxSalt == 1
MaxChannels == 11
MaxStacks == 3
MaxProfiles == 3
MaxPre == 1
MaxBatch == 2
MaxRuns == 2
MaxK == 3
MaxShort == 2
MaxMosaics == 2
MaxCalls == 4
MaxDepth == 2

VARIABLES
    fs,      \* the files: a function from <<directory, file name>> to content
    fs0,     \* history: the files when the call (the driver run) began
    dirs,    \* the directories that exist
    env,     \* the machine: is the batch tool installed, is its script there
    pc,      \* per process: the position in the code
    top,     \* per process: the function the process was started in
    exc,     \* per process: the exception that ended it ("none" if none)
    calls,   \* per process: how often each collaborator was called
    tts,     \* per process: the frame of tiles_to_stacks
    msp,     \* per process: the frame of make_shading_profiles
    sti,     \* per process: the frame of stitch_image
    mrg,     \* per process: the frame of merge_channels
    drv      \* per process: the frame of main and process_image

vars == <<fs, fs0, dirs, env, pc, top, exc, calls, tts, msp, sti, mrg, drv>>

Procs == {1, 2}

(***************************************************************************)
(* Paths.  A file name is a sequence of tokens: words, "." and decimal     *)
(* digits, so that splitting at the dots, globbing and the lexicographic   *)
(* order of names are computed as pathlib computes them; a directory is    *)
(* the sequence of the names on the way to it.  isPath tells a             *)
(* pathlib.Path from the str of the same path.                             *)
(***************************************************************************)
Path(d, n) == [isPath |-> TRUE, dir |-> d, name |-> n]

Str(p) == [p EXCEPT !.isPath = FALSE]

NoPath == [isPath |-> FALSE, dir |-> <<>>, name |-> <<>>]

Key(p) == <<p.dir, p.name>>

Exists(f, p) == Key(p) \in DOMAIN f

WriteFile(f, k, c) == [x \in DOMAIN f \cup {k} |-> IF x = k THEN c ELSE f[x]]

RemoveFile(f, k) == [x \in DOMAIN f \ {k} |-> f[x]]

(***************************************************************************)
(* The OME metadata tree.  Filter sets, dichroics and filters are objects, *)
(* named by numbers: links maps every filter set to the dichroic (0: none) *)
(* and the excitation and emission filters it links, whether or not it is  *)
(* still listed in an Instrument.  A channel holds the filter set it links *)
(* (0: none).                                                              *)
(***************************************************************************)
NoExperimenter ==
    [email |-> "", first_name |-> "", last_name |-> "", institution |-> ""]

Channels(im) == im.channels

ImageMeta(name, sx, sy, chs) ==
    [name |-> name, sizeX |-> sx, sizeY |-> sy, channels |-> chs]

Instrument(fsets, dichroics, filters) ==
    [filterSets |-> fsets, dichroics |-> dichroics, filters |-> filters]

NoTree ==
    [images |-> <<>>, instruments |-> <<>>, links |-> <<>>,
     experimenters |-> <<>>]

\* The tree a reader builds from an acquisition (or a stack made from it):
\* one Image per series, each with two channels that link a filter set of
\* their own with its own dichroic and filters, all listed in Instrument 0.
SourceLinks ==
    [i \in 1..2 |-> [dichroic |-> 10 + i, excitation |-> <<20 + i>>,
                     emission |-> <<30 + i>>]]

SourceTree(nseries) ==
    [images |-> [s \in 1..nseries |-> ImageMeta("series", 1, 1, <<1, 2>>)],
     instruments |-> <<Instrument({1, 2}, {11, 12}, {21, 22, 31, 32})>>,
     links |-> SourceLinks,
     experimenters |-> <<>>]

\* Mutant of RemoveLinked: the filter set goes, what it links stays.
RemoveLinked_SetOnly(instr, links, filter_set) ==
    Instrument(instr.filterSets \ {filter_set}, instr.dichroics, instr.filters)

\* instrument.removeFilterSet(filter_set), then removeDichroic and removeFilter
\* of everything filter_set links (lines 312-326).
RemoveLinked(instr, links, filter_set) ==
    LET l == links[filter_set] IN
    Instrument(instr.filterSets \ {filter_set},
               instr.dichroics \ {l.dichroic},
               instr.filters \ ({l.excitation[i] : i \in DOMAIN l.excitation}
                                \cup {l.emission[i] : i \in DOMAIN l.emission}))

\* Lines 296-326: the loops over the images and their channels, from channel
\* ch of image im on.  kept is kept_filter_set, which the first channel of
\* every image sets.  A channel after the first that links no filter set
\* makes filter_set.getLinkedDichroic() fail.
RECURSIVE FfmLoop(_, _, _, _)
FfmLoop(t, kept, im, ch) ==
    IF im > Len(t.images) THEN [raised |-> FALSE, tree |-> t]
    ELSE IF ch > Len(Channels(t.images[im])) THEN FfmLoop(t, kept, im + 1, 1)
    ELSE LET filter_set == Channels(t.images[im])[ch] IN
         IF ch = 1 THEN FfmLoop(t, filter_set, im, ch + 1)
         ELSE LET linked == [t EXCEPT !.images[im].channels[ch] = kept]
                  removed == [linked EXCEPT !.instruments[1].filterSets =
                                                @ \ {filter_set}]
              IN IF filter_set = 0
                 THEN [raised |-> TRUE, tree |-> removed]
                 ELSE FfmLoop([linked EXCEPT !.instruments[1] =
                                  RemoveLinked(@, t.links, filter_set)],
                              kept, im, ch + 1)

\* Lines 277-328.  root.getInstrument(0) fails on a tree with no Instrument.
fix_filters_metadata(metadata) ==
    IF metadata.instruments = <<>>
    THEN [raised |-> TRUE, tree |-> metadata]
    ELSE FfmLoop(metadata, 0, 1, 1)

\* Lines 249-274: the four setters on experimenter 0.
add_experimenter_data(metadata, user_info) ==
    [raised |-> FALSE,
     tree |-> [metadata EXCEPT !.experimenters =
                  IF @ = <<>> THEN <<user_info>> ELSE [@ EXCEPT ![1] = user_info]]]

\* user_info of process_image, lines 473-479.
UserInfo ==
    [email |-> "tdmorello@gmail.com", first_name |-> "Tim",
     last_name |-> "Morello", institution |-> "Downstate"]

\* One of the metadata_funcs, by name.
ApplyFunc(func, metadata) ==
    IF func = "add_experimenter_data"
    THEN add_experimenter_data(metadata, UserInfo)
    ELSE fix_filters_metadata(metadata)

(***************************************************************************)
(* File contents.  planes[s][p] is the byte buffer of plane p of series s  *)
(* (both counted from 1 here, from 0 in the code).                         *)
(***************************************************************************)
\* dims is the pixel height and width of every plane, meta the metadata tree
\* a reader finds in the file.
Content(k, pl) ==
    [kind |-> k, planes |-> pl, dims |-> <<1, 1>>,
     meta |-> IF k \in {"acquisition", "stack"} THEN SourceTree(Len(pl)) ELSE NoTree]

Shapes == UNION {[1..n -> 1..MaxPlanes] : n \in 1..MaxSeries}

Acquisition(shape, salt) ==
    Content("acquisition",
            [s \in 1..Len(shape) |-> [p \in 1..shape[s] |-> salt + 10 * s + p]])

Acquisitions == {Acquisition(sh, salt) : sh \in Shapes, salt \in 0..MaxSalt}

StaleStack == Content("stack", <<<<99>>>>)

(***************************************************************************)
(* Collaborator call counters and frames.                                  *)
(***************************************************************************)
NoCalls == [tts_reader |-> 0, tts_writer |-> 0, tool |-> 0, engine |-> 0,
            mrg_reader |-> 0, mrg_writer |-> 0]

Count(c, p, what) == [c EXCEPT ![p][what] = @ + 1]

TtsFrame(inp, out) ==
    [input_path |-> inp, output_path |-> out, s |-> 0, p |-> 0,
     copied |-> <<>>, hit |-> FALSE, ret |-> NoPath]

Raise(p, e) ==
    /\ pc' = [pc EXCEPT ![p] = "raised"]
    /\ exc' = [exc EXCEPT ![p] = e]

(***************************************************************************)
(* tiles_to_stacks (normalize).                                            *)
(***************************************************************************)
\* Mutant of TtsReturnTo: process_image goes on to stitch_image.
TtsReturnTo_Stitch(p) ==
    IF top[p] = "tiles_to_stacks" THEN "returned" ELSE "pi_stitch"

\* Where tiles_to_stacks returns to.
TtsReturnTo(p) == IF top[p] = "tiles_to_stacks" THEN "returned" ELSE "pi_profiles"

\* Mutants of TtsCheck: one never takes the cache hit, one looks at the output
\* before the input.
TtsCheck_NoCache(p) ==
    /\ pc[p] = "tts_check"
    /\ LET f == tts[p] IN
       IF ~(f.input_path.isPath /\ f.output_path.isPath)
       THEN Raise(p, "TypeError")
       ELSE IF ~Exists(fs, f.input_path)
       THEN Raise(p, "FileNotFoundError")
       ELSE pc' = [pc EXCEPT ![p] = "tts_reader"] /\ UNCHANGED exc
    /\ UNCHANGED <<fs, fs0, dirs, env, top, calls, tts, msp, sti, mrg, drv>>

TtsCheck_OutputFirst(p) ==
    /\ pc[p] = "tts_check"
    /\ LET f == tts[p] IN
       IF ~(f.input_path.isPath /\ f.output_path.isPath)
       THEN Raise(p, "TypeError") /\ UNCHANGED tts
       ELSE IF Exists(fs, f.output_path)
       THEN /\ tts' = [tts EXCEPT ![p].hit = TRUE, ![p].ret = f.output_path]
            /\ pc' = [pc EXCEPT ![p] = TtsReturnTo(p)]
            /\ UNCHANGED exc
       ELSE IF ~Exists(fs, f.input_path)
       THEN Raise(p, "FileNotFoundError") /\ UNCHANGED tts
       ELSE /\ pc' = [pc EXCEPT ![p] = "tts_reader"]
            /\ UNCHANGED <<tts, exc>>
    /\ UNCHANGED <<fs, fs0, dirs, env, top, calls, msp, sti, mrg, drv>>

\* Mutant of TtsCheck: the check waits while another invocation is between
\* its own check and the closing of its writer on the same output path.
TtsCheck_Locked(p) ==
    /\ pc[p] = "tts_check"
    /\ \A q \in Procs \ {p} :
          ~(/\ pc[q] \in {"tts_reader", "tts_writer", "tts_copy", "tts_close"}
            /\ tts[q].output_path = tts[p].output_path)
    /\ LET f == tts[p] IN
       IF ~(f.input_path.isPath /\ f.output_path.isPath)
       THEN Raise(p, "TypeError") /\ UNCHANGED tts
       ELSE IF ~Exists(fs, f.input_path)
       THEN Raise(p, "FileNotFoundError") /\ UNCHANGED tts
       ELSE IF Exists(fs, f.output_path)
       THEN /\ tts' = [tts EXCEPT ![p].hit = TRUE, ![p].ret = f.output_path]
            /\ pc' = [pc EXCEPT ![p] = TtsReturnTo(p)]
            /\ UNCHANGED exc
       ELSE /\ pc' = [pc EXCEPT ![p] = "tts_reader"]
            /\ UNCHANGED <<tts, exc>>
    /\ UNCHANGED <<fs, fs0, dirs, env, top, calls, msp, sti, mrg, drv>>

\* Lines 75-92 and 130: the type check, the two existence checks, the cache hit.
TtsCheck(p) ==
    /\ pc[p] = "tts_check"
    /\ LET f == tts[p] IN
       IF ~(f.input_path.isPath /\ f.output_path.isPath)
       THEN Raise(p, "TypeError") /\ UNCHANGED tts
       ELSE IF ~Exists(fs, f.input_path)
       THEN Raise(p, "FileNotFoundError") /\ UNCHANGED tts
       ELSE IF Exists(fs, f.output_path)
       THEN /\ tts' = [tts EXCEPT ![p].hit = TRUE, ![p].ret = f.output_path]
            /\ pc' = [pc EXCEPT ![p] = TtsReturnTo(p)]
            /\ UNCHANGED exc
       ELSE /\ pc' = [pc EXCEPT ![p] = "tts_reader"]
            /\ UNCHANGED <<tts, exc>>
    /\ UNCHANGED <<fs, fs0, dirs, env, top, calls, msp, sti, mrg, drv>>

\* Lines 93-104: the reader is constructed and opens the input.
TtsOpenReader(p) ==
    /\ pc[p] = "tts_reader"
    /\ calls' = Count(calls, p, "tts_reader")
    /\ IF Exists(fs, tts[p].input_path)
       THEN pc' = [pc EXCEPT ![p] = "tts_writer"] /\ UNCHANGED exc
       ELSE Raise(p, "FormatReadError")
    /\ UNCHANGED <<fs, fs0, dirs, env, top, tts, msp, sti, mrg, drv>>

\* Lines 110-116: the writer is constructed and creates the output file, with
\* the series of the reader's metadata and no plane yet.  When a file is at
\* the path by now (another invocation has created it since line 87), the
\* writer starts it anew or keeps what it holds.
TtsOpenWriter(p) ==
    /\ pc[p] = "tts_writer"
    /\ calls' = Count(calls, p, "tts_writer")
    /\ LET f == tts[p] IN
       IF f.output_path.dir \in dirs /\ Exists(fs, f.input_path)
       THEN /\ \/ fs' = WriteFile(fs, Key(f.output_path),
                           [Content("stack",
                               [s \in 1..Len(fs[Key(f.input_path)].planes) |-> <<>>])
                            EXCEPT !.meta = fs[Key(f.input_path)].meta,
                                   !.dims = fs[Key(f.input_path)].dims])
               \/ Exists(fs, f.output_path) /\ fs' = fs
            /\ pc' = [pc EXCEPT ![p] = "tts_copy"]
            /\ UNCHANGED exc
       ELSE Raise(p, "FormatWriteError") /\ UNCHANGED fs
    /\ UNCHANGED <<fs0, dirs, env, top, tts, msp, sti, mrg, drv>>

\* Mutant of saveBytes: the writer was never moved to series s.
saveBytes_SeriesZero(c, s, p, plane) ==
    [c EXCEPT !.planes[1] =
        [i \in DOMAIN @ \cup {p + 1} |-> IF i = p + 1 THEN plane ELSE @[i]]]

\* writer.saveBytes(p, plane) on the current series.
saveBytes(c, s, p, plane) ==
    [c EXCEPT !.planes[s + 1] =
        [i \in DOMAIN @ \cup {p + 1} |-> IF i = p + 1 THEN plane ELSE @[i]]]

\* Lines 119-125: one pass of the inner loop body, and the loop headers that
\* follow it.
TtsCopyPlane(p) ==
    /\ pc[p] = "tts_copy"
    /\ LET f == tts[p]
           src == fs[Key(f.input_path)].planes
           plane == src[f.s + 1][f.p + 1]
           lastPlane == f.p + 1 >= Len(src[f.s + 1])
           lastSeries == f.s + 1 >= Len(src)
       IN
       /\ Exists(fs, f.input_path) /\ Exists(fs, f.output_path)
       /\ fs' = [fs EXCEPT ![Key(f.output_path)] = saveBytes(@, f.s, f.p, plane)]
       /\ tts' = [tts EXCEPT ![p].copied = Append(@, <<f.s, f.p>>),
                             ![p].p = IF lastPlane THEN 0 ELSE f.p + 1,
                             ![p].s = IF lastPlane THEN f.s + 1 ELSE f.s]
       /\ pc' = [pc EXCEPT ![p] = IF lastPlane /\ lastSeries
                                  THEN "tts_close" ELSE "tts_copy"]
    /\ UNCHANGED <<fs0, dirs, env, top, exc, calls, msp, sti, mrg, drv>>

\* Mutant of TtsIOError: the file being written is deleted on a failure.
TtsIOError_Cleanup(p) ==
    /\ pc[p] = "tts_copy"
    /\ Raise(p, "FormatReadError")
    /\ fs' = RemoveFile(fs, Key(tts[p].output_path))
    /\ UNCHANGED <<fs0, dirs, env, top, calls, tts, msp, sti, mrg, drv>>

\* A reader or writer failure part-way: the exception propagates (spec 4.1),
\* and what was written stays.
TtsIOError(p) ==
    /\ pc[p] = "tts_copy"
    /\ Raise(p, "FormatReadError")
    /\ UNCHANGED <<fs, fs0, dirs, env, top, calls, tts, msp, sti, mrg, drv>>

\* Lines 127-130.
TtsClose(p) ==
    /\ pc[p] = "tts_close"
    /\ tts' = [tts EXCEPT ![p].ret = tts[p].output_path]
    /\ pc' = [pc EXCEPT ![p] = TtsReturnTo(p)]
    /\ UNCHANGED <<fs, fs0, dirs, env, top, exc, calls, msp, sti, mrg, drv>>

tiles_to_stacks(p) ==
    \/ TtsCheck(p)
    \/ TtsOpenReader(p)
    \/ TtsOpenWriter(p)
    \/ TtsCopyPlane(p)
    \/ TtsIOError(p)
    \/ TtsClose(p)

(***************************************************************************)
(* make_shading_profiles (generate_profiles).                              *)
(***************************************************************************)
\* A directory argument is a path with no file name; Join is pathlib's "/".
DirPath(d) == Path(d, <<>>)

Join(d, n) == [isPath |-> d.isPath, dir |-> d.dir, name |-> n]

\* experiment_name + '-ffp-basic.tif' and experiment_name + '-dfp-basic.tif'
FfpName(experiment_name) == <<experiment_name, "-ffp-basic", ".", "tif">>

DfpName(experiment_name) == <<experiment_name, "-dfp-basic", ".", "tif">>

Profile == Content("profile", <<<<7>>>>)

MspFrame(img, out) ==
    [image_path |-> img, output_dir |-> out, experiment_name |-> "shading",
     ffp_path |-> NoPath, dfp_path |-> NoPath, hit |-> FALSE,
     log |-> <<>>, ret |-> <<NoPath, NoPath>>]

MspReturnTo(p) ==
    IF top[p] = "make_shading_profiles" THEN "returned" ELSE "pi_stitch"

\* Mutant of MspCheck: one profile is enough for the cache hit.
MspCheck_EitherExists(p) ==
    /\ pc[p] = "msp_check"
    /\ LET f == msp[p]
           ffp_path == Join(f.output_dir, FfpName(f.experiment_name))
           dfp_path == Join(f.output_dir, DfpName(f.experiment_name))
       IN
       IF ~(f.image_path.isPath /\ f.output_dir.isPath)
       THEN Raise(p, "TypeError") /\ UNCHANGED msp
       ELSE IF Exists(fs, ffp_path) \/ Exists(fs, dfp_path)
       THEN /\ msp' = [msp EXCEPT ![p].ffp_path = ffp_path,
                                  ![p].dfp_path = dfp_path,
                                  ![p].hit = TRUE,
                                  ![p].ret = <<Str(ffp_path), Str(dfp_path)>>]
            /\ pc' = [pc EXCEPT ![p] = MspReturnTo(p)]
            /\ UNCHANGED exc
       ELSE /\ msp' = [msp EXCEPT ![p].ffp_path = ffp_path,
                                  ![p].dfp_path = dfp_path]
            /\ pc' = [pc EXCEPT ![p] = "msp_run"]
            /\ UNCHANGED exc
    /\ UNCHANGED <<fs, fs0, dirs, env, top, calls, tts, sti, mrg, drv>>

\* Lines 347-359 and 382: the type check, the two canonical paths, the cache
\* rule and the return of the two paths as strings.
MspCheck(p) ==
    /\ pc[p] = "msp_check"
    /\ LET f == msp[p]
           ffp_path == Join(f.output_dir, FfpName(f.experiment_name))
           dfp_path == Join(f.output_dir, DfpName(f.experiment_name))
       IN
       IF ~(f.image_path.isPath /\ f.output_dir.isPath)
       THEN Raise(p, "TypeError") /\ UNCHANGED msp
       ELSE IF Exists(fs, ffp_path) /\ Exists(fs, dfp_path)
       THEN /\ msp' = [msp EXCEPT ![p].ffp_path = ffp_path,
                                  ![p].dfp_path = dfp_path,
                                  ![p].hit = TRUE,
                                  ![p].ret = <<Str(ffp_path), Str(dfp_path)>>]
            /\ pc' = [pc EXCEPT ![p] = MspReturnTo(p)]
            /\ UNCHANGED exc
       ELSE /\ msp' = [msp EXCEPT ![p].ffp_path = ffp_path,
                                  ![p].dfp_path = dfp_path]
            /\ pc' = [pc EXCEPT ![p] = "msp_run"]
            /\ UNCHANGED exc
    /\ UNCHANGED <<fs, fs0, dirs, env, top, calls, tts, sti, mrg, drv>>

\* Mutant of run_command: a tool that leaves without writing the profiles is
\* an error, as with subprocess.run(..., check=True).
run_command_Checked(f, e, ds, image_path, ffp_path, dfp_path) ==
    IF e.tool_installed /\ e.script_present /\ Exists(f, image_path)
       /\ ffp_path.dir \in ds
    THEN {[raised |-> FALSE,
           fs |-> WriteFile(WriteFile(f, Key(ffp_path), Profile),
                            Key(dfp_path), Profile)]}
    ELSE {[raised |-> TRUE, fs |-> f]}

\* utils.run_command on the batch tool: subprocess.run raises when the
\* executable is missing; otherwise the exit status is returned, whatever it
\* is.  The tool writes both profiles, or (script missing, input unreadable,
\* any failure of its own) none.  The result is the set of possible outcomes.
run_command(f, e, ds, image_path, ffp_path, dfp_path) ==
    IF ~e.tool_installed
    THEN {[raised |-> TRUE, fs |-> f]}
    ELSE {[raised |-> FALSE, fs |-> f]}
         \cup IF e.script_present /\ Exists(f, image_path) /\ ffp_path.dir \in ds
              THEN {[raised |-> FALSE,
                     fs |-> WriteFile(WriteFile(f, Key(ffp_path), Profile),
                                      Key(dfp_path), Profile)]}
              ELSE {}

\* Lines 360-382: a missing script is logged as an error; the tool is run
\* once; its exit status is dropped and the two paths are returned.
MspRun(p) ==
    /\ pc[p] = "msp_run"
    /\ calls' = Count(calls, p, "tool")
    /\ LET f == msp[p]
           logged == IF env.script_present THEN <<>> ELSE <<"script_missing">>
       IN
       \E o \in run_command(fs, env, dirs, f.image_path, f.ffp_path, f.dfp_path) :
          IF o.raised
          THEN /\ Raise(p, "FileNotFoundError")
               /\ msp' = [msp EXCEPT ![p].log = logged]
               /\ UNCHANGED fs
          ELSE /\ fs' = o.fs
               /\ msp' = [msp EXCEPT ![p].log = logged,
                                     ![p].ret = <<Str(f.ffp_path), Str(f.dfp_path)>>]
               /\ pc' = [pc EXCEPT ![p] = MspReturnTo(p)]
               /\ UNCHANGED exc
    /\ UNCHANGED <<fs0, dirs, env, top, tts, sti, mrg, drv>>

make_shading_profiles(p) == MspCheck(p) \/ MspRun(p)

(***************************************************************************)
(* stitch_image (stitch).                                                  *)
(***************************************************************************)
DigitTok == <<"0", "1", "2", "3", "4", "5", "6", "7", "8", "9">>

\* str(n) of a natural number, most significant digit first.
RECURSIVE Decimal(_)
Decimal(n) ==
    IF n < 10 THEN <<DigitTok[n + 1]>>
    ELSE Decimal(n \div 10) \o <<DigitTok[(n % 10) + 1]>>

\* 'stitched_ch_{channel}.tif'.format(channel=ch)
MosaicName(ch) == <<"stitched_ch_">> \o Decimal(ch) \o <<".", "tif">>

\* A name matched by 'stitched_ch_{channel}.tif'.format(channel='*').
GlobMatches(n) ==
    /\ Len(n) >= 3
    /\ n[1] = "stitched_ch_"
    /\ n[Len(n) - 1] = "."
    /\ n[Len(n)] = "tif"

\* The code point of the first character of a token.
Rank(tok) ==
    CASE tok = "." -> 46
      [] tok \in {DigitTok[i] : i \in 1..10} ->
            47 + (CHOOSE i \in 1..10 : DigitTok[i] = tok)
      [] tok = "ome" -> 111
      [] tok = "tif" -> 116
      [] tok = "stitched_ch_" -> 115
      [] OTHER -> 97

\* The order of two names as strings.
RECURSIVE NameLess(_, _)
NameLess(a, b) ==
    IF a = <<>> THEN b # <<>>
    ELSE IF b = <<>> THEN FALSE
    ELSE IF Head(a) = Head(b) THEN NameLess(Tail(a), Tail(b))
    ELSE Rank(Head(a)) < Rank(Head(b))

\* sorted(paths) for the paths of one directory.
RECURSIVE sorted(_)
sorted(paths) ==
    IF paths = {} THEN <<>>
    ELSE LET m == CHOOSE x \in paths :
                     \A y \in paths \ {x} : NameLess(x.name, y.name)
         IN <<m>> \o sorted(paths \ {m})

\* folder_path.glob(pattern), lines 224-234.
search_for_files(f, folder_path) ==
    {Path(k[1], k[2]) : k \in {x \in DOMAIN f :
                                  x[1] = folder_path.dir /\ GlobMatches(x[2])}}

Mosaic(ch) == Content("mosaic", <<<<100 + ch>>>>)

StiFrame(imgs, out, ffp, dfp, channels, plates) ==
    [image_files |-> imgs, output |-> out, ffp |-> ffp, dfp |-> dfp,
     output_channels |-> channels, plates |-> plates,
     ffp_paths |-> ffp, dfp_paths |-> dfp, flip_x |-> FALSE, flip_y |-> FALSE,
     hit |-> FALSE, usage_error |-> FALSE, ret |-> <<>>, ret_none |-> FALSE]

StiReturnTo(p) == IF top[p] = "stitch_image" THEN "returned" ELSE "pi_merge"

\* ffp_paths * len(image_files) for a list of length 1
Broadcast(l, n) == IF Len(l) = 1 THEN [i \in 1..n |-> l[1]] ELSE l

\* Mutant of WrongLength: only a list longer than the stacks is refused.
WrongLength_TooLongOnly(l, n) == Len(l) > n

\* len(l) not in (0, 1, n), under "if l:"
WrongLength(l, n) == l # <<>> /\ Len(l) \notin {0, 1, n}

\* Mutant of StiValidate: the cache rule is gone.
StiValidate_NoCache(p) ==
    /\ pc[p] = "sti_validate"
    /\ LET f == sti[p]
           n == Len(f.image_files)
       IN
       IF WrongLength(f.ffp, n) \/ WrongLength(f.dfp, n)
       THEN /\ sti' = [sti EXCEPT ![p].usage_error = TRUE, ![p].ret_none = TRUE]
            /\ pc' = [pc EXCEPT ![p] = StiReturnTo(p)]
            /\ UNCHANGED exc
       ELSE IF f.plates
       THEN Raise(p, "NotImplementedError") /\ UNCHANGED sti
       ELSE /\ sti' = [sti EXCEPT ![p].ffp_paths = Broadcast(f.ffp, n),
                                  ![p].dfp_paths = Broadcast(f.dfp, n)]
            /\ pc' = [pc EXCEPT ![p] = "sti_engine"]
            /\ UNCHANGED exc
    /\ UNCHANGED <<fs, fs0, dirs, env, top, calls, tts, msp, mrg, drv>>

\* Lines 401-450: the conversions, the validation of the profile lists, then
\* plates and the cache rule.
StiValidate(p) ==
    /\ pc[p] = "sti_validate"
    /\ LET f == sti[p]
           n == Len(f.image_files)
       IN
       IF WrongLength(f.ffp, n) \/ WrongLength(f.dfp, n)
       THEN /\ sti' = [sti EXCEPT ![p].usage_error = TRUE, ![p].ret_none = TRUE]
            /\ pc' = [pc EXCEPT ![p] = StiReturnTo(p)]
            /\ UNCHANGED exc
       ELSE IF f.plates
       THEN Raise(p, "NotImplementedError") /\ UNCHANGED sti
       ELSE /\ sti' = [sti EXCEPT ![p].ffp_paths = Broadcast(f.ffp, n),
                                  ![p].dfp_paths = Broadcast(f.dfp, n),
                                  ![p].hit = search_for_files(fs, f.output) # {}]
            /\ pc' = [pc EXCEPT ![p] = IF search_for_files(fs, f.output) # {}
                                       THEN "sti_return" ELSE "sti_engine"]
            /\ UNCHANGED exc
    /\ UNCHANGED <<fs, fs0, dirs, env, top, calls, tts, msp, mrg, drv>>

\* ashlar.process_single: it reads the stacks and the profiles it is given and
\* writes one mosaic per requested channel (every channel of the first stack
\* if none is requested), named by the template; it raises when a file it is
\* given does not exist or holds no plane.
process_single(f, ds, filepaths, out, ffp_paths, dfp_paths, channels) ==
    IF /\ out.dir \in ds
       /\ filepaths # <<>>
       /\ \A i \in 1..Len(filepaths) :
             /\ Exists(f, filepaths[i])
             /\ DOMAIN f[Key(filepaths[i])].planes # {}
             /\ DOMAIN f[Key(filepaths[i])].planes[1] # {}
       /\ \A i \in 1..Len(ffp_paths) : Exists(f, ffp_paths[i])
       /\ \A i \in 1..Len(dfp_paths) : Exists(f, dfp_paths[i])
    THEN LET nch == Cardinality(DOMAIN f[Key(filepaths[1])].planes[1])
             chs == IF channels # <<>>
                    THEN {channels[i] : i \in 1..Len(channels)}
                    ELSE 0..(nch - 1)
             new == {<<out.dir, MosaicName(ch)>> : ch \in chs}
         IN [raised |-> FALSE,
             fs |-> [k \in DOMAIN f \cup new |->
                        IF k \in new
                        THEN Mosaic(CHOOSE ch \in chs : k[2] = MosaicName(ch))
                        ELSE f[k]]]
    ELSE [raised |-> TRUE, fs |-> f]

\* Lines 451-459.
StiEngine(p) ==
    /\ pc[p] = "sti_engine"
    /\ calls' = Count(calls, p, "engine")
    /\ LET f == sti[p]
           o == process_single(fs, dirs, f.image_files, f.output,
                               f.ffp_paths, f.dfp_paths, f.output_channels)
       IN IF o.raised
          THEN Raise(p, "EngineError") /\ UNCHANGED fs
          ELSE /\ fs' = o.fs
               /\ pc' = [pc EXCEPT ![p] = "sti_return"]
               /\ UNCHANGED exc
    /\ UNCHANGED <<fs0, dirs, env, top, tts, msp, sti, mrg, drv>>

\* Lines 461-463.
StiReturn(p) ==
    /\ pc[p] = "sti_return"
    /\ sti' = [sti EXCEPT ![p].ret = sorted(search_for_files(fs, sti[p].output))]
    /\ pc' = [pc EXCEPT ![p] = StiReturnTo(p)]
    /\ UNCHANGED <<fs, fs0, dirs, env, top, exc, calls, tts, msp, mrg, drv>>

stitch_image(p) == StiValidate(p) \/ StiEngine(p) \/ StiReturn(p)

(***************************************************************************)
(* merge_channels (merge).                                                 *)
(***************************************************************************)
\* none: image_paths is None (what stitch_image returns on a usage error).
\* source is the tree as the reader delivered it, metadata the tree being
\* reconciled and transformed, k the number of
\* metadata_funcs applied so far, i the number of planes written.  orphan:
\* the file this call's writer has open was unlinked by another invocation,
\* so that what the writer saves is in no file of the directory any more.
MrgFrame(imgs, none, meta, out, funcs) ==
    [image_paths |-> imgs, image_paths_none |-> none, metadata_path |-> meta,
     output_path |-> out, metadata_funcs |-> funcs, image_shape |-> <<>>,
     source |-> NoTree, metadata |-> NoTree, k |-> 0, i |-> 0, ret |-> NoPath,
     orphan |-> FALSE]

NoMrg == MrgFrame(<<>>, FALSE, NoPath, NoPath, <<>>)

MrgReturnTo(p) == IF top[p] = "merge_channels" THEN "returned" ELSE "pi_return"

\* skimage.io.imread(path).shape: (height, width) of a single-plane image,
\* (planes, height, width) of a multi-plane one.
get_image_shape(c) ==
    IF Len(c.planes[1]) = 1 THEN c.dims ELSE <<Len(c.planes[1])>> \o c.dims

\* Mutant of Reconcile: width and height are mixed up.
Reconcile_Swapped(tree, name, image_shape) ==
    [tree EXCEPT !.images = <<[tree.images[1] EXCEPT !.name = name,
                                                     !.sizeX = image_shape[1],
                                                     !.sizeY = image_shape[2]]>>]

\* Mutant of ReplaceImages: only the former Image 0 is removed.
ReplaceImages_FirstOnly(images, imageMeta) == Append(Tail(images), imageMeta)

\* Lines 189-194: Image 0 is removed until the list is empty, then imageMeta
\* is added.
ReplaceImages(images, imageMeta) == <<imageMeta>>

\* Lines 177-195: Image 0 gets the name of the output file and the size of the
\* first mosaic (SizeX from image_shape[1], SizeY from image_shape[0]); every
\* Image is removed and this one is added back.
Reconcile(tree, name, image_shape) ==
    [tree EXCEPT !.images =
        ReplaceImages(tree.images,
                      [tree.images[1] EXCEPT !.name = name,
                                             !.sizeX = image_shape[2],
                                             !.sizeY = image_shape[1]])]

\* Mutant of MrgPrepare: the paths are checked after the files were read.
MrgPrepare_CheckLast(p) ==
    /\ pc[p] = "mrg_prepare"
    /\ LET f == mrg[p] IN
       IF f.image_paths_none
       THEN Raise(p, "TypeError") /\ UNCHANGED <<calls, mrg>>
       ELSE IF f.image_paths = <<>>
       THEN Raise(p, "IndexError") /\ UNCHANGED <<calls, mrg>>
       ELSE IF ~Exists(fs, f.image_paths[1])
       THEN Raise(p, "FileNotFoundError") /\ UNCHANGED <<calls, mrg>>
       ELSE IF fs[Key(f.image_paths[1])].planes = <<>>
               \/ fs[Key(f.image_paths[1])].planes[1] = <<>>
       THEN Raise(p, "ValueError") /\ UNCHANGED <<calls, mrg>>
       ELSE /\ calls' = Count(calls, p, "mrg_reader")
            /\ IF ~Exists(fs, f.metadata_path)
               THEN Raise(p, "FormatReadError") /\ UNCHANGED mrg
               ELSE IF fs[Key(f.metadata_path)].meta.images = <<>>
               THEN Raise(p, "JavaException") /\ UNCHANGED mrg
               ELSE IF ~(/\ \A i \in 1..Len(f.image_paths) : f.image_paths[i].isPath
                         /\ f.metadata_path.isPath
                         /\ f.output_path.isPath)
               THEN Raise(p, "TypeError") /\ UNCHANGED mrg
               ELSE LET shape == get_image_shape(fs[Key(f.image_paths[1])]) IN
                    /\ mrg' = [mrg EXCEPT
                                 ![p].image_shape = shape,
                                 ![p].source = fs[Key(f.metadata_path)].meta,
                                 ![p].metadata =
                                     Reconcile(fs[Key(f.metadata_path)].meta,
                                               f.output_path.name, shape)]
                    /\ pc' = [pc EXCEPT ![p] = IF f.metadata_funcs = <<>>
                                               THEN "mrg_writer" ELSE "mrg_funcs"]
                    /\ UNCHANGED exc
    /\ UNCHANGED <<fs, fs0, dirs, env, top, tts, msp, sti, drv>>

\* Lines 149-195: the type check, the shape of the first mosaic, the metadata
\* of metadata_path read through a reader, and the size reconciliation.  None
\* of it touches a file.
MrgPrepare(p) ==
    /\ pc[p] = "mrg_prepare"
    /\ LET f == mrg[p] IN
       IF f.image_paths_none
       THEN Raise(p, "TypeError") /\ UNCHANGED <<calls, mrg>>
       ELSE IF ~(/\ \A i \in 1..Len(f.image_paths) : f.image_paths[i].isPath
                 /\ f.metadata_path.isPath
                 /\ f.output_path.isPath)
       THEN Raise(p, "TypeError") /\ UNCHANGED <<calls, mrg>>
       ELSE IF f.image_paths = <<>>
       THEN Raise(p, "IndexError") /\ UNCHANGED <<calls, mrg>>
       ELSE IF ~Exists(fs, f.image_paths[1])
       THEN Raise(p, "FileNotFoundError") /\ UNCHANGED <<calls, mrg>>
       ELSE IF fs[Key(f.image_paths[1])].planes = <<>>
               \/ fs[Key(f.image_paths[1])].planes[1] = <<>>
       THEN Raise(p, "ValueError") /\ UNCHANGED <<calls, mrg>>
       ELSE /\ calls' = Count(calls, p, "mrg_reader")
            /\ IF ~Exists(fs, f.metadata_path)
               THEN Raise(p, "FormatReadError") /\ UNCHANGED mrg
               ELSE IF fs[Key(f.metadata_path)].meta.images = <<>>
               THEN Raise(p, "JavaException") /\ UNCHANGED mrg
               ELSE LET shape == get_image_shape(fs[Key(f.image_paths[1])]) IN
                    /\ mrg' = [mrg EXCEPT
                                 ![p].image_shape = shape,
                                 ![p].source = fs[Key(f.metadata_path)].meta,
                                 ![p].metadata =
                                     Reconcile(fs[Key(f.metadata_path)].meta,
                                               f.output_path.name, shape)]
                    /\ pc' = [pc EXCEPT ![p] = IF f.metadata_funcs = <<>>
                                               THEN "mrg_writer" ELSE "mrg_funcs"]
                    /\ UNCHANGED exc
    /\ UNCHANGED <<fs, fs0, dirs, env, top, tts, msp, sti, drv>>

\* Mutant of MrgTransform: the file at output_path is deleted before the
\* transforms run.
MrgTransform_UnlinkFirst(p) ==
    /\ pc[p] = "mrg_funcs"
    /\ fs' = IF Exists(fs, mrg[p].output_path)
             THEN RemoveFile(fs, Key(mrg[p].output_path)) ELSE fs
    /\ LET f == mrg[p]
           o == ApplyFunc(f.metadata_funcs[f.k + 1], f.metadata)
       IN IF o.raised
          THEN Raise(p, "JavaException") /\ UNCHANGED mrg
          ELSE /\ mrg' = [mrg EXCEPT ![p].metadata = o.tree, ![p].k = f.k + 1]
               /\ pc' = [pc EXCEPT ![p] = IF f.k + 1 >= Len(f.metadata_funcs)
                                          THEN "mrg_writer" ELSE "mrg_funcs"]
               /\ UNCHANGED exc
    /\ UNCHANGED <<fs0, dirs, env, top, calls, tts, msp, sti, drv>>

\* Lines 198-199: one pass of the loop over metadata_funcs.
MrgTransform(p) ==
    /\ pc[p] = "mrg_funcs"
    /\ LET f == mrg[p]
           o == ApplyFunc(f.metadata_funcs[f.k + 1], f.metadata)
       IN IF o.raised
          THEN Raise(p, "JavaException") /\ UNCHANGED mrg
          ELSE /\ mrg' = [mrg EXCEPT ![p].metadata = o.tree, ![p].k = f.k + 1]
               /\ pc' = [pc EXCEPT ![p] = IF f.k + 1 >= Len(f.metadata_funcs)
                                          THEN "mrg_writer" ELSE "mrg_funcs"]
               /\ UNCHANGED exc
    /\ UNCHANGED <<fs, fs0, dirs, env, top, calls, tts, msp, sti, drv>>

\* Mutant of MrgOpenWriter: a file at output_path is not deleted, and the
\* writer appends to it.
MrgOpenWriter_NoUnlink(p) ==
    /\ pc[p] = "mrg_writer"
    /\ calls' = Count(calls, p, "mrg_writer")
    /\ LET f == mrg[p] IN
       IF f.output_path.dir \in dirs
       THEN /\ fs' = IF Exists(fs, f.output_path) THEN fs
                     ELSE WriteFile(fs, Key(f.output_path),
                              [Content("merged", <<<<>>>>)
                               EXCEPT !.meta = f.metadata,
                                      !.dims = <<f.metadata.images[1].sizeY,
                                                 f.metadata.images[1].sizeX>>])
            /\ pc' = [pc EXCEPT ![p] = IF f.image_paths = <<>>
                                       THEN "mrg_close" ELSE "mrg_plane"]
            /\ UNCHANGED exc
       ELSE UNCHANGED fs /\ Raise(p, "FormatWriteError")
    /\ UNCHANGED <<fs0, dirs, env, top, tts, msp, sti, mrg, drv>>

\* The frames once p has unlinked the file at path: a writer that another
\* invocation has open on it goes on writing to the unlinked file.
Unlinked(p, path) ==
    [q \in Procs |->
        IF /\ q # p
           /\ Exists(fs, path)
           /\ pc[q] \in {"mrg_plane", "mrg_close"}
           /\ mrg[q].output_path = path
        THEN [mrg[q] EXCEPT !.orphan = TRUE]
        ELSE mrg[q]]

\* Lines 205-210: a file at output_path is deleted, then the writer creates it
\* with the transformed tree.
MrgOpenWriter(p) ==
    /\ pc[p] = "mrg_writer"
    /\ calls' = Count(calls, p, "mrg_writer")
    /\ LET f == mrg[p]
           unlinked == IF Exists(fs, f.output_path)
                       THEN RemoveFile(fs, Key(f.output_path)) ELSE fs
       IN
       /\ mrg' = Unlinked(p, f.output_path)
       /\ IF f.output_path.dir \in dirs
          THEN /\ fs' = WriteFile(unlinked, Key(f.output_path),
                           [Content("merged", <<<<>>>>)
                            EXCEPT !.meta = f.metadata,
                                   !.dims = <<f.metadata.images[1].sizeY,
                                              f.metadata.images[1].sizeX>>])
               /\ pc' = [pc EXCEPT ![p] = IF f.image_paths = <<>>
                                          THEN "mrg_close" ELSE "mrg_plane"]
               /\ UNCHANGED exc
          ELSE fs' = unlinked /\ Raise(p, "FormatWriteError")
    /\ UNCHANGED <<fs0, dirs, env, top, tts, msp, sti, drv>>

\* Lines 212-218: one pass of the loop: plane 0 of mosaic i becomes plane i.
\* What the writer makes of a buffer that is not SizeX x SizeY is the
\* library's business: it takes the buffer or it fails.
MrgWritePlane(p) ==
    /\ pc[p] = "mrg_plane"
    /\ calls' = Count(calls, p, "mrg_reader")
    /\ LET f == mrg[p]
           img == f.image_paths[f.i + 1]
       IN
       IF /\ Exists(fs, img)
          /\ f.orphan \/ Exists(fs, f.output_path)
          /\ DOMAIN fs[Key(img)].planes # {}
          /\ DOMAIN fs[Key(img)].planes[1] # {}
       THEN \E taken \in IF fs[Key(img)].dims = <<f.metadata.images[1].sizeY,
                                                  f.metadata.images[1].sizeX>>
                         THEN {TRUE} ELSE BOOLEAN :
               IF taken
               THEN /\ fs' = IF f.orphan THEN fs
                             ELSE [fs EXCEPT ![Key(f.output_path)] =
                                     saveBytes(@, 0, f.i,
                                               fs[Key(img)].planes[1][1])]
                    /\ mrg' = [mrg EXCEPT ![p].i = f.i + 1]
                    /\ pc' = [pc EXCEPT ![p] = IF f.i + 1 >= Len(f.image_paths)
                                               THEN "mrg_close" ELSE "mrg_plane"]
                    /\ UNCHANGED exc
               ELSE Raise(p, "FormatWriteError") /\ UNCHANGED <<fs, mrg>>
       ELSE Raise(p, "FormatReadError") /\ UNCHANGED <<fs, mrg>>
    /\ UNCHANGED <<fs0, dirs, env, top, tts, msp, sti, drv>>

\* Lines 219-221.
MrgClose(p) ==
    /\ pc[p] = "mrg_close"
    /\ mrg' = [mrg EXCEPT ![p].ret = mrg[p].output_path]
    /\ pc' = [pc EXCEPT ![p] = MrgReturnTo(p)]
    /\ UNCHANGED <<fs, fs0, dirs, env, top, exc, calls, tts, msp, sti, drv>>

merge_channels(p) ==
    \/ MrgPrepare(p)
    \/ MrgTransform(p)
    \/ MrgOpenWriter(p)
    \/ MrgWritePlane(p)
    \/ MrgClose(p)

(***************************************************************************)
(* main and process_image (the driver).                                    *)
(***************************************************************************)
\* 'stacked.ome.tif'
StackedName == <<"stacked", ".", "ome", ".", "tif">>

\* The index of the first "." of a name, or one past its end.
RECURSIVE FirstDot(_, _)
FirstDot(n, i) ==
    IF i > Len(n) \/ n[i] = "." THEN i ELSE FirstDot(n, i + 1)

\* pathlib.Path(path).name.split('.')[0]
path_basename(path) == SubSeq(path.name, 1, FirstDot(path.name, 1) - 1)

\* log: the stages called in this run, as <<index in the batch, stage>>;
\* rets: what the stages of each finished acquisition returned;
\* prev_rets, prev_done: rets of the run before, and whether it ended normally;
\* flip_x, flip_y: the --flip-x and --flip-y options (store_true, default False).
DrvFrame(filepaths, output_dir, tmp_dir, run, prev_rets, prev_done) ==
    [filepaths |-> filepaths, output_dir |-> output_dir, tmp_dir |-> tmp_dir,
     i |-> 1, input_path |-> NoPath, tmp_folder |-> NoPath,
     output_path |-> NoPath, stacked |-> NoPath, ffp |-> NoPath,
     dfp |-> NoPath, stitched |-> <<>>, stitched_none |-> FALSE,
     log |-> <<>>, rets |-> <<>>,
     run |-> run, prev_rets |-> prev_rets, prev_done |-> prev_done,
     flip_x |-> FALSE, flip_y |-> FALSE]

NoDrv == DrvFrame(<<>>, NoPath, NoPath, 0, <<>>, FALSE)

\* The directory holding the path d, and the key of a file at d.
Parent(d) == SubSeq(d, 1, Len(d) - 1)
FileKey(d) == <<Parent(d), d[Len(d)]>>

\* pathlib.Path.exists: a directory or a file is at d.
PathExists(f, ds, d) == d \in ds \/ (d # <<>> /\ FileKey(d) \in DOMAIN f)

\* pathlib.Path.mkdir(), no parents, no exist_ok: the error it raises.
mkdir(f, ds, d) ==
    IF PathExists(f, ds, d) THEN "FileExistsError"
    ELSE IF Parent(d) \notin ds THEN "FileNotFoundError"
    ELSE "none"

\* The mutant of create: mkdir(exist_ok=True).
create_ExistOk(f, ds, path) ==
    LET error == IF path.dir \in ds THEN "none" ELSE mkdir(f, ds, path.dir)
    IN [error |-> error,
        dirs |-> IF error = "none" THEN ds \cup {path.dir} ELSE ds]

\* TempFolder.create, tempfolder.py lines 45-59: mkdir; FileExistsError and
\* any other OSError (the parent is missing) are logged, not raised.  error is
\* what was logged, dirs the directories afterwards.
create(f, ds, path) ==
    LET error == mkdir(f, ds, path.dir)
    IN [error |-> error,
        dirs |-> IF error = "none" THEN ds \cup {path.dir} ELSE ds]

\* Lines 535-544 and 468: the loop header; for the next path, the scratch
\* folder is created if absent and process_image calls tiles_to_stacks.
MainLoop(p) ==
    /\ pc[p] = "main"
    /\ LET d == drv[p] IN
       IF d.i > Len(d.filepaths)
       THEN /\ pc' = [pc EXCEPT ![p] = "done"]
            /\ UNCHANGED <<dirs, tts, drv>>
       ELSE LET path == d.filepaths[d.i]
                temp_folder_path ==
                    DirPath(Append(d.tmp_dir.dir, path_basename(path)))
                output_path ==
                    Join(d.output_dir,
                         path_basename(path) \o <<".", "ome", ".", "tif">>)
            IN /\ dirs' = IF PathExists(fs, dirs, temp_folder_path.dir)
                          THEN dirs
                          ELSE create(fs, dirs, temp_folder_path).dirs
               /\ drv' = [drv EXCEPT ![p].input_path = path,
                                     ![p].tmp_folder = temp_folder_path,
                                     ![p].output_path = output_path,
                                     ![p].log = Append(@, <<d.i, "normalize">>)]
               /\ tts' = [tts EXCEPT ![p] =
                            TtsFrame(path, Join(temp_folder_path, StackedName))]
               /\ pc' = [pc EXCEPT ![p] = "tts_check"]
    /\ UNCHANGED <<fs, fs0, env, top, exc, calls, msp, sti, mrg>>

\* Line 469.
PiProfiles(p) ==
    /\ pc[p] = "pi_profiles"
    /\ drv' = [drv EXCEPT ![p].stacked = tts[p].ret,
                          ![p].log = Append(@, <<drv[p].i, "generate_profiles">>)]
    /\ msp' = [msp EXCEPT ![p] = MspFrame(tts[p].ret, drv[p].tmp_folder)]
    /\ pc' = [pc EXCEPT ![p] = "msp_check"]
    /\ UNCHANGED <<fs, fs0, dirs, env, top, exc, calls, tts, sti, mrg>>

\* Lines 470-471.
PiStitch(p) ==
    /\ pc[p] = "pi_stitch"
    /\ drv' = [drv EXCEPT ![p].ffp = msp[p].ret[1],
                          ![p].dfp = msp[p].ret[2],
                          ![p].log = Append(@, <<drv[p].i, "stitch">>)]
    /\ sti' = [sti EXCEPT ![p] =
                 [StiFrame(<<drv[p].stacked>>, drv[p].tmp_folder,
                           <<msp[p].ret[1]>>, <<msp[p].ret[2]>>, <<>>, FALSE)
                  EXCEPT !.flip_y = TRUE]]
    /\ pc' = [pc EXCEPT ![p] = "sti_validate"]
    /\ UNCHANGED <<fs, fs0, dirs, env, top, exc, calls, tts, msp, mrg>>

\* Lines 473-487.
PiMerge(p) ==
    /\ pc[p] = "pi_merge"
    /\ drv' = [drv EXCEPT ![p].stitched = sti[p].ret,
                          ![p].stitched_none = sti[p].ret_none,
                          ![p].log = Append(@, <<drv[p].i, "merge">>)]
    /\ mrg' = [mrg EXCEPT ![p] =
                 MrgFrame(sti[p].ret, sti[p].ret_none, drv[p].stacked,
                          drv[p].output_path,
                          <<"add_experimenter_data", "fix_filters_metadata">>)]
    /\ pc' = [pc EXCEPT ![p] = "mrg_prepare"]
    /\ UNCHANGED <<fs, fs0, dirs, env, top, exc, calls, tts, msp, sti>>

\* process_image returns to the loop of main (line 544 to line 535).
PiReturn(p) ==
    /\ pc[p] = "pi_return"
    /\ drv' = [drv EXCEPT ![p].i = @ + 1,
                          ![p].rets = Append(@, [stacked |-> drv[p].stacked,
                                                 ffp |-> drv[p].ffp,
                                                 dfp |-> drv[p].dfp,
                                                 stitched |-> drv[p].stitched])]
    /\ pc' = [pc EXCEPT ![p] = "main"]
    /\ UNCHANGED <<fs, fs0, dirs, env, top, exc, calls, tts, msp, sti, mrg>>

process_image(p) ==
    \/ PiProfiles(p)
    \/ PiStitch(p)
    \/ PiMerge(p)
    \/ PiReturn(p)

\* The driver is started again with the same arguments, after it ended
\* normally or with an exception; the files are as it left them.
Rerun(p) ==
    /\ pc[p] \in {"done", "raised"}
    /\ top[p] = "main"
    /\ drv[p].run < MaxRuns
    /\ drv' = [drv EXCEPT ![p] =
                 [DrvFrame(drv[p].filepaths, drv[p].output_dir, drv[p].tmp_dir,
                           drv[p].run + 1, drv[p].rets, pc[p] = "done")
                  EXCEPT !.flip_x = drv[p].flip_x, !.flip_y = drv[p].flip_y]]
    /\ pc' = [pc EXCEPT ![p] = "main"]
    /\ exc' = [exc EXCEPT ![p] = "none"]
    /\ calls' = [calls EXCEPT ![p] = NoCalls]
    /\ fs0' = fs
    /\ tts' = [tts EXCEPT ![p] = TtsFrame(NoPath, NoPath)]
    /\ msp' = [msp EXCEPT ![p] = MspFrame(NoPath, NoPath)]
    /\ sti' = [sti EXCEPT ![p] = StiFrame(<<>>, NoPath, <<>>, <<>>, <<>>, FALSE)]
    /\ mrg' = [mrg EXCEPT ![p] = NoMrg]
    /\ UNCHANGED <<fs, dirs, env, top>>

main(p) ==
    \/ MainLoop(p)
    \/ tiles_to_stacks(p)
    \/ make_shading_profiles(p)
    \/ stitch_image(p)
    \/ merge_channels(p)
    \/ process_image(p)

(***************************************************************************)
(* The names and directories the models draw their inputs from.            *)
(***************************************************************************)
InputA == Path(<<<<"d1">>>>, <<"a", ".", "czi">>)

ScratchA == <<<<"tmp">>, <<"a">>>>

Idle == [p \in Procs |-> "idle"]

(***************************************************************************)
(* SpecNormalize: one call of tiles_to_stacks, with an input that exists or *)
(* not, an output that exists or not, in a directory that exists or not,   *)
(* each argument a Path or a str.                                          *)
(***************************************************************************)
InitNormalize ==
    /\ \E acq \in Acquisitions, hasIn \in BOOLEAN, hasOut \in BOOLEAN :
          fs = [k \in (IF hasIn THEN {Key(InputA)} ELSE {})
                       \cup (IF hasOut THEN {<<ScratchA, StackedName>>} ELSE {})
                 |-> IF k = Key(InputA) THEN acq ELSE StaleStack]
    /\ fs0 = fs
    /\ dirs \in {{<<<<"d1">>>>}, {<<<<"d1">>>>, ScratchA}}
    /\ (<<ScratchA, StackedName>> \in DOMAIN fs => ScratchA \in dirs)
    /\ env = [tool_installed |-> TRUE, script_present |-> TRUE]
    /\ pc = [Idle EXCEPT ![1] = "tts_check"]
    /\ top = [Idle EXCEPT ![1] = "tiles_to_stacks"]
    /\ exc = [p \in Procs |-> "none"]
    /\ calls = [p \in Procs |-> NoCalls]
    /\ \E inIsPath \in BOOLEAN, outIsPath \in BOOLEAN :
          tts = [p \in Procs |->
                  IF p = 1
                  THEN TtsFrame(IF inIsPath THEN InputA ELSE Str(InputA),
                                IF outIsPath THEN Path(ScratchA, StackedName)
                                ELSE Str(Path(ScratchA, StackedName)))
                  ELSE TtsFrame(NoPath, NoPath)]
    /\ msp = [p \in Procs |-> MspFrame(NoPath, NoPath)]
    /\ sti = [p \in Procs |-> StiFrame(<<>>, NoPath, <<>>, <<>>, <<>>, FALSE)]
    /\ mrg = [p \in Procs |-> NoMrg]
    /\ drv = [p \in Procs |-> NoDrv]

NextNormalize == \E p \in Procs : tiles_to_stacks(p)

SpecNormalize == InitNormalize /\ [][NextNormalize]_vars

(***************************************************************************)
(* SpecProfiles: one call of make_shading_profiles, with each of the two   *)
(* canonical files there or not, on a machine with or without the tool and *)
(* its script.                                                             *)
(***************************************************************************)
Machines ==
    {[tool_installed |-> t, script_present |-> s] : t \in BOOLEAN, s \in BOOLEAN}

StackA == Path(ScratchA, StackedName)

InitProfiles ==
    /\ \E acq \in Acquisitions, pre \in SUBSET {"stack", "ffp", "dfp"} :
          fs = [k \in (IF "stack" \in pre THEN {Key(StackA)} ELSE {})
                   \cup (IF "ffp" \in pre THEN {<<ScratchA, FfpName("shading")>>} ELSE {})
                   \cup (IF "dfp" \in pre THEN {<<ScratchA, DfpName("shading")>>} ELSE {})
                 |-> IF k = Key(StackA)
                     THEN Content("stack", acq.planes) ELSE Profile]
    /\ fs0 = fs
    /\ dirs = {ScratchA}
    /\ env \in Machines
    /\ pc = [Idle EXCEPT ![1] = "msp_check"]
    /\ top = [Idle EXCEPT ![1] = "make_shading_profiles"]
    /\ exc = [p \in Procs |-> "none"]
    /\ calls = [p \in Procs |-> NoCalls]
    /\ tts = [p \in Procs |-> TtsFrame(NoPath, NoPath)]
    /\ \E imgIsPath \in BOOLEAN :
          msp = [p \in Procs |->
                  IF p = 1
                  THEN MspFrame(IF imgIsPath THEN StackA ELSE Str(StackA),
                                DirPath(ScratchA))
                  ELSE MspFrame(NoPath, NoPath)]
    /\ sti = [p \in Procs |-> StiFrame(<<>>, NoPath, <<>>, <<>>, <<>>, FALSE)]
    /\ mrg = [p \in Procs |-> NoMrg]
    /\ drv = [p \in Procs |-> NoDrv]

NextProfiles == \E p \in Procs : make_shading_profiles(p)

SpecProfiles == InitProfiles /\ [][NextProfiles]_vars

(***************************************************************************)
(* SpecStitch: one call of stitch_image on 1..MaxStacks stacks with        *)
(* 1..MaxChannels channels, flat-field and dark-field lists of every       *)
(* length up to MaxProfiles, and some, all or none of the channel mosaics  *)
(* already in the output directory; a stack or the output directory may be *)
(* given as a str.                                                         *)
(***************************************************************************)
InDir == <<<<"in">>>>

StackFile(i) == Path(InDir, <<"stack_">> \o Decimal(i) \o <<".", "tif">>)

FfpFile(i) == Str(Path(InDir, <<"ffp_">> \o Decimal(i) \o <<".", "tif">>))

DfpFile(i) == Str(Path(InDir, <<"dfp_">> \o Decimal(i) \o <<".", "tif">>))

ChannelStack(nch) == Content("stack", <<[c \in 1..nch |-> 20 + c]>>)

InitStitch ==
    /\ \E nch \in 1..MaxChannels, pre \in SUBSET (0..MaxPre),
          hasProfiles \in BOOLEAN, hasDir \in BOOLEAN :
          /\ dirs = {InDir} \cup (IF hasDir THEN {ScratchA} ELSE {})
          /\ (pre # {} => hasDir)
          /\ LET stacks == {Key(StackFile(i)) : i \in 1..MaxStacks}
                 profiles == IF hasProfiles
                             THEN {Key(FfpFile(i)) : i \in 1..MaxProfiles}
                                  \cup {Key(DfpFile(i)) : i \in 1..MaxProfiles}
                             ELSE {}
                 mosaics == {<<ScratchA, MosaicName(ch)>> : ch \in pre}
             IN fs = [k \in stacks \cup profiles \cup mosaics |->
                        IF k \in stacks THEN ChannelStack(nch)
                        ELSE IF k \in profiles THEN Profile
                        ELSE Mosaic(CHOOSE ch \in pre : k[2] = MosaicName(ch))]
    /\ fs0 = fs
    /\ env = [tool_installed |-> TRUE, script_present |-> TRUE]
    /\ pc = [Idle EXCEPT ![1] = "sti_validate"]
    /\ top = [Idle EXCEPT ![1] = "stitch_image"]
    /\ exc = [p \in Procs |-> "none"]
    /\ calls = [p \in Procs |-> NoCalls]
    /\ tts = [p \in Procs |-> TtsFrame(NoPath, NoPath)]
    /\ msp = [p \in Procs |-> MspFrame(NoPath, NoPath)]
    /\ \E n \in 1..MaxStacks, lf \in 0..MaxProfiles, ld \in 0..MaxProfiles,
          channels \in {<<>>, <<1>>}, plates \in BOOLEAN,
          kind \in {"paths", "str_image", "str_output"} :
          sti = [p \in Procs |->
                  IF p = 1
                  THEN StiFrame([i \in 1..n |-> IF kind = "str_image" /\ i = n
                                                THEN Str(StackFile(i))
                                                ELSE StackFile(i)],
                                IF kind = "str_output"
                                THEN Str(DirPath(ScratchA)) ELSE DirPath(ScratchA),
                                [i \in 1..lf |-> FfpFile(i)],
                                [i \in 1..ld |-> DfpFile(i)], channels, plates)
                  ELSE StiFrame(<<>>, NoPath, <<>>, <<>>, <<>>, FALSE)]
    /\ mrg = [p \in Procs |-> NoMrg]
    /\ drv = [p \in Procs |-> NoDrv]

NextStitch == \E p \in Procs : stitch_image(p)

SpecStitch == InitStitch /\ [][NextStitch]_vars

(***************************************************************************)
(* The claims about tiles_to_stacks, checked under SpecNormalize.          *)
(***************************************************************************)
NormalizeOnPaths(p) ==
    /\ top[p] = "tiles_to_stacks"
    /\ tts[p].input_path.isPath
    /\ tts[p].output_path.isPath

\* C4: tiles_to_stacks called with an existing input and an existing output
\* returns output_path, constructs no reader and no writer (so never opens the
\* input) and leaves every file, the output included, as it was.
C4_CacheHitTouchesNothing ==
    \A p \in Procs :
        (/\ NormalizeOnPaths(p)
         /\ Exists(fs0, tts[p].input_path)
         /\ Exists(fs0, tts[p].output_path))
        => /\ pc[p] \in {"tts_check", "returned"}
           /\ calls[p].tts_reader = 0
           /\ calls[p].tts_writer = 0
           /\ fs = fs0
           /\ (pc[p] = "returned" => tts[p].ret = tts[p].output_path)

C4_Witness ==
    /\ NormalizeOnPaths(1)
    /\ pc[1] = "returned"
    /\ Exists(fs0, tts[1].input_path)
    /\ Exists(fs0, tts[1].output_path)
    /\ fs[Key(tts[1].output_path)] = StaleStack

\* C5: tiles_to_stacks called with an input that does not exist ends with
\* FileNotFoundError, with no reader and no writer constructed and no file
\* created or changed, whether output_path exists or not.
C5_MissingInputRaisesFirst ==
    \A p \in Procs :
        (NormalizeOnPaths(p) /\ ~Exists(fs0, tts[p].input_path))
        => /\ pc[p] \in {"tts_check", "raised"}
           /\ (pc[p] = "raised" => exc[p] = "FileNotFoundError")
           /\ calls[p].tts_reader = 0
           /\ calls[p].tts_writer = 0
           /\ fs = fs0

C5_Witness ==
    /\ NormalizeOnPaths(1)
    /\ pc[1] = "raised"
    /\ exc[1] = "FileNotFoundError"
    /\ ~Exists(fs0, tts[1].input_path)
    /\ Exists(fs0, tts[1].output_path)

\* The planes of an image as (series, plane) pairs counted from 0.
AllPlanes(pl) == UNION {{<<s - 1, q - 1>> : q \in DOMAIN pl[s]} : s \in DOMAIN pl}

Ascending(log) ==
    \A i, j \in 1..Len(log) :
        i < j => \/ log[i][1] < log[j][1]
                 \/ log[i][1] = log[j][1] /\ log[i][2] < log[j][2]

\* C6: on a cache miss the copy goes through the planes in ascending order,
\* series by series, and when tiles_to_stacks returns every plane of the input
\* has been copied exactly once, the file at output_path holds plane p of
\* series s of the input as plane p of series s, and it is the only file
\* created or changed.
C6_VerbatimCopy ==
    \A p \in Procs :
        NormalizeOnPaths(p)
        => /\ Ascending(tts[p].copied)
           /\ (pc[p] = "returned" /\ ~tts[p].hit)
              => LET src == fs0[Key(tts[p].input_path)].planes
                     out == Key(tts[p].output_path)
                 IN /\ out \in DOMAIN fs
                    /\ fs[out].planes = src
                    /\ DOMAIN fs = DOMAIN fs0 \cup {out}
                    /\ \A k \in DOMAIN fs0 : fs[k] = fs0[k]
                    /\ {tts[p].copied[i] : i \in 1..Len(tts[p].copied)}
                          = AllPlanes(src)
                    /\ Len(tts[p].copied) = Cardinality(AllPlanes(src))

C6_Witness ==
    /\ NormalizeOnPaths(1)
    /\ pc[1] = "returned"
    /\ ~tts[1].hit
    /\ Len(tts[1].copied) = MaxSeries * MaxPlanes

(***************************************************************************)
(* The claims about stitch_image, checked under SpecStitch.                *)
(***************************************************************************)
DigitVal(tok) == (CHOOSE i \in 1..10 : DigitTok[i] = tok) - 1

RECURSIVE Number(_)
Number(digits) ==
    IF digits = <<>> THEN 0
    ELSE 10 * Number(SubSeq(digits, 1, Len(digits) - 1))
         + DigitVal(digits[Len(digits)])

\* The channel index in the name of a channel mosaic.
ChannelOf(name) == Number(SubSeq(name, 2, Len(name) - 2))

\* C7: the list stitch_image returns is ordered by channel index: the path of
\* a lower channel precedes the path of a higher one, for any number of
\* channels.
C7_ChannelOrder ==
    \A p \in Procs :
        (top[p] = "stitch_image" /\ pc[p] = "returned" /\ ~sti[p].ret_none)
        => \A i, j \in 1..Len(sti[p].ret) :
              i < j => ChannelOf(sti[p].ret[i].name) < ChannelOf(sti[p].ret[j].name)

\* A flat-field or dark-field list whose length is not 0, 1 or the number of
\* input stacks.
BadProfileLists(p) ==
    \/ Len(sti[p].ffp) \notin {0, 1, Len(sti[p].image_files)}
    \/ Len(sti[p].dfp) \notin {0, 1, Len(sti[p].image_files)}

\* C8: with a flat-field or dark-field list of a length other than 0, 1 or N,
\* stitch_image returns None with the usage error reported, raises nothing,
\* never calls the engine and creates or changes no file, whether mosaics
\* matching the template exist or not.
C8_BadListLengthIsUsageError ==
    \A p \in Procs :
        (top[p] = "stitch_image" /\ BadProfileLists(p))
        => /\ pc[p] \in {"sti_validate", "returned"}
           /\ exc[p] = "none"
           /\ calls[p].engine = 0
           /\ fs = fs0
           /\ (pc[p] = "returned" => sti[p].ret_none /\ sti[p].usage_error)

C8_Witness ==
    /\ top[1] = "stitch_image"
    /\ pc[1] = "returned"
    /\ sti[1].ret_none
    /\ Len(sti[1].ffp) = 2
    /\ Len(sti[1].image_files) = 3
    /\ search_for_files(fs0, sti[1].output) = {}

Ended(p) == pc[p] \in {"returned", "raised"}

BothProfilesExisted(p) ==
    /\ <<msp[p].output_dir.dir, <<"shading", "-ffp-basic", ".", "tif">>>> \in DOMAIN fs0
    /\ <<msp[p].output_dir.dir, <<"shading", "-dfp-basic", ".", "tif">>>> \in DOMAIN fs0

\* C10: make_shading_profiles never runs the tool when both canonical files
\* exist at the call; when it returns, it returns the two canonical paths and
\* has run the tool not at all if both files existed and exactly once if
\* neither or only one did.
C10_ToolRunsIffAProfileIsMissing ==
    \A p \in Procs :
        (top[p] = "make_shading_profiles"
         /\ msp[p].image_path.isPath /\ msp[p].output_dir.isPath)
        => /\ calls[p].tool <= 1
           /\ (BothProfilesExisted(p)
               => calls[p].tool = 0 /\ pc[p] \in {"msp_check", "returned"})
           /\ (pc[p] = "returned"
               => /\ calls[p].tool = IF BothProfilesExisted(p) THEN 0 ELSE 1
                  /\ msp[p].ret[1] =
                       [isPath |-> FALSE, dir |-> msp[p].output_dir.dir,
                        name |-> <<"shading", "-ffp-basic", ".", "tif">>]
                  /\ msp[p].ret[2] =
                       [isPath |-> FALSE, dir |-> msp[p].output_dir.dir,
                        name |-> <<"shading", "-dfp-basic", ".", "tif">>])

\* Only the flat-field profile existed; the tool ran once.
C10_Witness ==
    /\ top[1] = "make_shading_profiles"
    /\ pc[1] = "returned"
    /\ calls[1].tool = 1
    /\ <<ScratchA, <<"shading", "-ffp-basic", ".", "tif">>>> \in DOMAIN fs0
    /\ <<ScratchA, <<"shading", "-dfp-basic", ".", "tif">>>> \notin DOMAIN fs0

(***************************************************************************)
(* Spec: the driver, main, run on a batch of up to MaxBatch acquisitions   *)
(* and then run again on the same batch, up to MaxRuns runs in all.  The   *)
(* inputs exist or not; the scratch folder of "a" may hold files of an     *)
(* earlier run; the tool and its script are installed or not.              *)
(***************************************************************************)
InputB == Path(<<<<"d1">>>>, <<"b", ".", "czi">>)

\* Another file of base name "a".
InputC == Path(<<<<"d2">>>>, <<"a", ".", "czi">>)

Inputs == {InputA, InputB, InputC}

InputContent(path) ==
    IF path = InputA THEN Acquisition(<<2>>, 0)
    ELSE IF path = InputB THEN Acquisition(<<1, 1>>, 0)
    ELSE Acquisition(<<1>>, 1)

TmpDir == <<<<"tmp">>>>

OutDir == <<<<"out">>>>

Batches ==
    {b \in UNION {[1..n -> Inputs] : n \in 1..MaxBatch} :
        \A i, j \in DOMAIN b : i # j => b[i] # b[j]}

\* Files an earlier run may have left in the scratch folder of "a".
Leftovers ==
    [stacked |-> <<ScratchA, StackedName>>,
     ffp |-> <<ScratchA, FfpName("shading")>>,
     dfp |-> <<ScratchA, DfpName("shading")>>,
     mosaic |-> <<ScratchA, MosaicName(0)>>]

LeftoverContent(k) ==
    IF k = Leftovers.stacked THEN Content("stack", InputContent(InputA).planes)
    ELSE IF k = Leftovers.mosaic THEN Mosaic(0)
    ELSE Profile

Init ==
    /\ \E absent \in {x \in SUBSET Inputs : Cardinality(x) <= 1},
          pre \in SUBSET {"stacked", "ffp", "dfp", "mosaic"},
          hasTmp \in BOOLEAN :
          /\ (pre # {} => hasTmp)
          /\ dirs = {<<<<"d1">>>>, <<<<"d2">>>>, OutDir}
                    \cup (IF hasTmp THEN {TmpDir} ELSE {})
                    \cup (IF pre # {} THEN {ScratchA} ELSE {})
          /\ fs = [k \in {Key(x) : x \in Inputs \ absent}
                         \cup {Leftovers[l] : l \in pre}
                    |-> IF k \in {Key(x) : x \in Inputs}
                        THEN InputContent(CHOOSE x \in Inputs : Key(x) = k)
                        ELSE LeftoverContent(k)]
    /\ fs0 = fs
    /\ env \in Machines
    /\ pc = [Idle EXCEPT ![1] = "main"]
    /\ top = [Idle EXCEPT ![1] = "main"]
    /\ exc = [p \in Procs |-> "none"]
    /\ calls = [p \in Procs |-> NoCalls]
    /\ tts = [p \in Procs |-> TtsFrame(NoPath, NoPath)]
    /\ msp = [p \in Procs |-> MspFrame(NoPath, NoPath)]
    /\ sti = [p \in Procs |-> StiFrame(<<>>, NoPath, <<>>, <<>>, <<>>, FALSE)]
    /\ mrg = [p \in Procs |-> NoMrg]
    /\ \E b \in Batches :
          drv = [p \in Procs |->
                  IF p = 1
                  THEN DrvFrame(b, DirPath(OutDir), DirPath(TmpDir), 1, <<>>, FALSE)
                  ELSE NoDrv]

Next == \E p \in Procs : main(p) \/ Rerun(p)

Spec == Init /\ [][Next]_vars

(***************************************************************************)
(* The claims about the driver, checked under Spec.                        *)
(***************************************************************************)
IsPrefix(a, b) == Len(a) <= Len(b) /\ a = SubSeq(b, 1, Len(a))

\* C1: in a second run of the driver on the same batch, after a first run
\* that ended normally and with the files as it left them, tiles_to_stacks
\* constructs no reader and no writer, the batch tool is not run, the
\* stitching engine is not called, the three stages return what they returned
\* in the first run, and merge_channels writes every output again.
C1_SecondRunOnlyMerges ==
    \A p \in Procs :
        (top[p] = "main" /\ drv[p].run = 2 /\ drv[p].prev_done)
        => /\ calls[p].tts_reader = 0
           /\ calls[p].tts_writer = 0
           /\ calls[p].tool = 0
           /\ calls[p].engine = 0
           /\ IsPrefix(drv[p].rets, drv[p].prev_rets)
           /\ (pc[p] = "done" => calls[p].mrg_writer = Len(drv[p].filepaths))

Stages == <<"normalize", "generate_profiles", "stitch", "merge">>

\* The first n stage calls of a run that takes the acquisitions in the order
\* supplied and the stages of each in the fixed order.
ExpectedLog(n) ==
    [k \in 1..n |-> <<((k - 1) \div 4) + 1, Stages[((k - 1) % 4) + 1]>>]

\* How many stages of the current acquisition have been called at a position.
StagesCalled(l) ==
    CASE l \in {"tts_check", "tts_reader", "tts_writer", "tts_copy",
                "tts_close", "pi_profiles"} -> 1
      [] l \in {"msp_check", "msp_run", "pi_stitch"} -> 2
      [] l \in {"sti_validate", "sti_engine", "sti_return", "pi_merge"} -> 3
      [] l \in {"mrg_prepare", "mrg_funcs", "mrg_writer", "mrg_plane",
                "mrg_close", "pi_return"} -> 4
      [] OTHER -> 0

\* C2: the driver calls the stages of each acquisition in the order
\* normalize, generate_profiles, stitch, merge, each after the one before has
\* returned and on what that one returned, and takes the acquisitions one at
\* a time in the order supplied: while acquisition i is in its k-th stage
\* the calls made so far are all four stages of acquisitions 1..i-1, in
\* order, and the first k stages of acquisition i.
C2_StagesInOrder ==
    \A p \in Procs :
        top[p] = "main"
        => LET d == drv[p]
               scratch == DirPath(Append(d.tmp_dir.dir, d.input_path.name[1]))
           IN
           /\ d.log = ExpectedLog(Len(d.log))
           /\ Len(d.rets) = d.i - 1
           /\ (pc[p] \notin {"raised", "done"}
               => Len(d.log) = 4 * (d.i - 1) + StagesCalled(pc[p]))
           /\ (pc[p] = "done" => Len(d.log) = 4 * Len(d.filepaths))
           /\ (StagesCalled(pc[p]) >= 1
               => /\ d.input_path = d.filepaths[d.i]
                  /\ tts[p].input_path = d.filepaths[d.i]
                  /\ tts[p].output_path = Join(scratch, StackedName))
           /\ (StagesCalled(pc[p]) >= 2
               => /\ tts[p].ret = tts[p].output_path
                  /\ msp[p].image_path = tts[p].ret
                  /\ msp[p].output_dir = scratch)
           /\ (StagesCalled(pc[p]) >= 3
               => /\ msp[p].ret[1].name = FfpName("shading")
                  /\ sti[p].image_files = <<tts[p].ret>>
                  /\ sti[p].output = scratch
                  /\ sti[p].ffp = <<msp[p].ret[1]>>
                  /\ sti[p].dfp = <<msp[p].ret[2]>>)
           /\ (StagesCalled(pc[p]) >= 4
               => /\ pc[p] # "mrg_prepare" \/ sti[p].ret = sorted(search_for_files(fs, scratch))
                  /\ mrg[p].image_paths = sti[p].ret
                  /\ mrg[p].metadata_path = tts[p].ret)

\* A batch of two has been processed to the end.
C2_Witness ==
    /\ top[1] = "main"
    /\ pc[1] = "done"
    /\ drv[1].run = 1
    /\ Len(drv[1].filepaths) = 2
    /\ Len(drv[1].log) = 8

\* C3 as stated: when a stage has raised for one acquisition of the batch,
\* every other acquisition of the batch is processed through all its stages.
C3_OthersStillProcessed ==
    \A p \in Procs :
        (top[p] = "main" /\ pc[p] = "raised")
        => \A j \in 1..Len(drv[p].filepaths) :
              j # drv[p].i
              => \E k \in 1..Len(drv[p].log) : drv[p].log[k] = <<j, "merge">>

\* What the driver does instead: an exception of a stage ends the whole run.
\* The stage that raised is the last one called: no later stage of that
\* acquisition and no stage of a later acquisition is called, and exactly the
\* acquisitions supplied before it have been processed through all stages.
RaiseEndsTheRun ==
    \A p \in Procs :
        (top[p] = "main" /\ exc[p] # "none")
        => LET d == drv[p] IN
           /\ pc[p] = "raised"
           /\ d.i <= Len(d.filepaths)
           /\ Len(d.rets) = d.i - 1
           /\ d.log = ExpectedLog(Len(d.log))
           /\ 4 * (d.i - 1) < Len(d.log)
           /\ Len(d.log) <= 4 * d.i
           /\ ~ENABLED main(p)

\* The first of two acquisitions raised; the second, whose input exists, was
\* never started.
RaiseEndsTheRun_Witness ==
    /\ top[1] = "main"
    /\ pc[1] = "raised"
    /\ drv[1].run = 1
    /\ drv[1].i = 1
    /\ Len(drv[1].filepaths) = 2
    /\ Exists(fs, drv[1].filepaths[2])
    /\ Len(drv[1].log) = 3

(***************************************************************************)
(* SpecFilters: one call of fix_filters_metadata on a tree with one or two *)
(* Images of up to MaxK channels.  Every channel links one of the filter   *)
(* sets 1..MaxK or none; the filter sets have a dichroic and filters of    *)
(* their own or link common ones; the Instrument lists the filter sets the *)
(* channels link, or all of them, or is missing.                           *)
(***************************************************************************)
ChannelLists(maxlen, lowest) ==
    UNION {[1..k -> lowest..MaxK] : k \in 0..maxlen}

LinkModes ==
    [dichroic : {"own", "shared", "none"}, filters : {"own", "shared"}]

TreeLinks(mode) ==
    [i \in 1..MaxK |->
        [dichroic |-> IF mode.dichroic = "own" THEN 10 + i
                      ELSE IF mode.dichroic = "shared" THEN 10 ELSE 0,
         excitation |-> IF mode.filters = "own" THEN <<20 + i>> ELSE <<20>>,
         emission |-> IF mode.filters = "own" THEN <<30 + i>> ELSE <<30>>]]

\* The filter sets the channels of a tree link.
LinkedSets(t) ==
    UNION {{Channels(t.images[im])[ch] : ch \in DOMAIN Channels(t.images[im])}
           : im \in DOMAIN t.images} \ {0}

DichroicsOf(links, sets) == {links[i].dichroic : i \in sets} \ {0}

FiltersOf(links, sets) ==
    UNION {{links[i].excitation[j] : j \in DOMAIN links[i].excitation}
           \cup {links[i].emission[j] : j \in DOMAIN links[i].emission}
           : i \in sets}

FilterTree(chs, mode, listAll, hasInstrument) ==
    LET links == TreeLinks(mode)
        bare == [images |-> [im \in DOMAIN chs |->
                                ImageMeta("series", 1, 1, chs[im])],
                 instruments |-> <<>>, links |-> links, experimenters |-> <<>>]
        sets == IF listAll THEN 1..MaxK ELSE LinkedSets(bare)
    IN IF hasInstrument
       THEN [bare EXCEPT !.instruments =
                <<Instrument(sets, DichroicsOf(links, sets), FiltersOf(links, sets))>>]
       ELSE bare

FilterTrees ==
    {FilterTree(chs, mode, listAll, hasInstrument) :
        chs \in {<<c>> : c \in ChannelLists(MaxK, 0)}
                \cup {<<c, d>> : c \in ChannelLists(MaxK, 0),
                                 d \in ChannelLists(MaxShort, 1)},
        mode \in LinkModes, listAll \in BOOLEAN, hasInstrument \in BOOLEAN}

InitFilters ==
    /\ fs = <<>>
    /\ fs0 = fs
    /\ dirs = {}
    /\ env = [tool_installed |-> TRUE, script_present |-> TRUE]
    /\ pc = [Idle EXCEPT ![1] = "ffm_call"]
    /\ top = [Idle EXCEPT ![1] = "fix_filters_metadata"]
    /\ exc = [p \in Procs |-> "none"]
    /\ calls = [p \in Procs |-> NoCalls]
    /\ tts = [p \in Procs |-> TtsFrame(NoPath, NoPath)]
    /\ msp = [p \in Procs |-> MspFrame(NoPath, NoPath)]
    /\ sti = [p \in Procs |-> StiFrame(<<>>, NoPath, <<>>, <<>>, <<>>, FALSE)]
    /\ \E t \in FilterTrees :
          mrg = [p \in Procs |->
                  IF p = 1
                  THEN [NoMrg EXCEPT !.source = t, !.metadata = t,
                                     !.metadata_funcs = <<"fix_filters_metadata">>]
                  ELSE NoMrg]
    /\ drv = [p \in Procs |-> NoDrv]

\* metadata = fix_filters_metadata(metadata)
FfmCall(p) ==
    /\ pc[p] = "ffm_call"
    /\ LET o == fix_filters_metadata(mrg[p].metadata) IN
       IF o.raised
       THEN Raise(p, "JavaException") /\ UNCHANGED mrg
       ELSE /\ mrg' = [mrg EXCEPT ![p].metadata = o.tree, ![p].k = 1]
            /\ pc' = [pc EXCEPT ![p] = "returned"]
            /\ UNCHANGED exc
    /\ UNCHANGED <<fs, fs0, dirs, env, top, calls, tts, msp, sti, drv>>

NextFilters == \E p \in Procs : FfmCall(p)

SpecFilters == InitFilters /\ [][NextFilters]_vars

\* Every channel of the tree links a filter set of its own, and the
\* Instrument lists just these filter sets.
DistinctFilterSets(t) ==
    /\ t.instruments # <<>>
    /\ \A im \in DOMAIN t.images : Channels(t.images[im]) # <<>>
    /\ \A im1, im2 \in DOMAIN t.images :
          \A c1 \in DOMAIN Channels(t.images[im1]),
             c2 \in DOMAIN Channels(t.images[im2]) :
             /\ Channels(t.images[im1])[c1] # 0
             /\ (<<im1, c1>> # <<im2, c2>>
                 => Channels(t.images[im1])[c1] # Channels(t.images[im2])[c2])
    /\ t.instruments[1].filterSets = LinkedSets(t)

\* The filter sets the first channels of the Images link.
FirstSets(t) == {Channels(t.images[im])[1] : im \in DOMAIN t.images}

\* C13: on a tree whose K channels each link a distinct filter set,
\* fix_filters_metadata returns a tree in which every channel of an Image
\* links the filter set of the Image's first channel, that filter set is the
\* only one of the Image left in the Instrument, and the K-1 other filter
\* sets are gone from the Instrument together with the dichroic and the
\* filters that only they link.
C13_CollapseToFirstFilterSet ==
    \A p \in Procs :
        (top[p] = "fix_filters_metadata" /\ pc[p] # "ffm_call"
         /\ DistinctFilterSets(mrg[p].source))
        => LET t0 == mrg[p].source
               t == mrg[p].metadata
               kept == FirstSets(t0)
               gone == LinkedSets(t0) \ kept
           IN
           /\ pc[p] = "returned"
           /\ \A im \in DOMAIN t.images :
                 /\ Len(Channels(t.images[im])) = Len(Channels(t0.images[im]))
                 /\ \A ch \in DOMAIN Channels(t.images[im]) :
                       Channels(t.images[im])[ch] = Channels(t0.images[im])[1]
           /\ t.instruments[1].filterSets = kept
           /\ Cardinality(gone) =
                 Cardinality(LinkedSets(t0)) - Len(t0.images)
           /\ t.instruments[1].dichroics \cap
                 (DichroicsOf(t0.links, gone) \ DichroicsOf(t0.links, kept)) = {}
           /\ t.instruments[1].filters \cap
                 (FiltersOf(t0.links, gone) \ FiltersOf(t0.links, kept)) = {}

\* One Image with MaxK channels, each with a filter set, a dichroic and
\* filters of its own, has been collapsed.
C13_Witness ==
    /\ top[1] = "fix_filters_metadata"
    /\ pc[1] = "returned"
    /\ DistinctFilterSets(mrg[1].source)
    /\ Len(mrg[1].source.images) = 1
    /\ Len(Channels(mrg[1].source.images[1])) = MaxK
    /\ mrg[1].source.links[1].dichroic = 11
    /\ mrg[1].source.links[1].excitation = <<21>>
    /\ Cardinality(mrg[1].metadata.instruments[1].filters) = 2

\* C24: after fix_filters_metadata has returned, for every Image, the filter
\* set that a channel of the Image links is listed in the Instrument,
\* together with the dichroic and the excitation and emission filters it
\* links; this for every input tree, one where several channels linked the
\* same filter set and one where distinct filter sets link a common dichroic
\* or filter included.
C24_LinkedFilterSetStaysWhole ==
    \A p \in Procs :
        (top[p] = "fix_filters_metadata" /\ pc[p] = "returned")
        => LET t == mrg[p].metadata
               instr == t.instruments[1]
           IN \A fset \in LinkedSets(t) :
                 /\ fset \in instr.filterSets
                 /\ DichroicsOf(t.links, {fset}) \subseteq instr.dichroics
                 /\ FiltersOf(t.links, {fset}) \subseteq instr.filters

(***************************************************************************)
(* SpecMerge: one call of merge_channels on 0..MaxMosaics mosaics of       *)
(* various sizes and plane counts, a metadata source with various trees,   *)
(* an output that exists or not, and every list of the two transforms of   *)
(* process_image; a file or a directory may be missing and an argument may *)
(* be of the wrong kind.                                                   *)
(***************************************************************************)
MosaicFile(i) == Path(ScratchA, MosaicName(i - 1))

MosaicVariants ==
    {[pages |-> 1, dims |-> <<2, 3>>], [pages |-> 1, dims |-> <<4, 5>>],
     [pages |-> 2, dims |-> <<2, 3>>]}

MosaicOf(ch, v) ==
    [Content("mosaic", <<[q \in 1..v.pages |-> 100 * q + ch]>>)
     EXCEPT !.dims = v.dims]

\* A source of MaxSeries + 1 Images that differ in size and channels.
SeriesTree ==
    [SourceTree(MaxSeries + 1) EXCEPT
       !.images = [s \in 1..(MaxSeries + 1) |->
                     ImageMeta("series", 5 + s, 7 + s,
                               IF s = 1 THEN <<2, 1>> ELSE <<1, 2>>)]]

MetaTrees ==
    {SourceTree(1), SourceTree(2), NoTree, SeriesTree,
     [SourceTree(1) EXCEPT !.instruments = <<>>],
     [SourceTree(2) EXCEPT !.images[1].channels = <<1, 1>>]}

OutFile == Path(<<<<"out">>>>, <<"a", ".", "ome", ".", "tif">>)

StaleMerged ==
    [Content("merged", <<<<55, 56, 57>>>>) EXCEPT !.meta = SourceTree(2)]

FuncLists ==
    {<<>>, <<"add_experimenter_data">>, <<"fix_filters_metadata">>,
     <<"add_experimenter_data", "fix_filters_metadata">>,
     <<"fix_filters_metadata", "add_experimenter_data">>}

InitMerge ==
    /\ \E n \in 0..MaxMosaics, tree \in MetaTrees, hasOut \in BOOLEAN,
          fault \in {"none", "first_missing", "last_missing", "meta_missing",
                     "no_outdir"},
          funcs \in FuncLists,
          kind \in {"paths", "str_image", "str_meta", "str_out", "none"} :
          \E vs \in [1..n -> MosaicVariants] :
             /\ dirs = {ScratchA} \cup (IF fault = "no_outdir" /\ ~hasOut
                                        THEN {} ELSE {<<<<"out">>>>})
             /\ LET mosaics == {Key(MosaicFile(i)) : i \in 1..n}
                               \ ((IF fault = "first_missing"
                                   THEN {Key(MosaicFile(1))} ELSE {})
                                  \cup (IF fault = "last_missing" /\ n >= 1
                                        THEN {Key(MosaicFile(n))} ELSE {}))
                    meta == IF fault = "meta_missing" THEN {} ELSE {Key(StackA)}
                    out == IF hasOut THEN {Key(OutFile)} ELSE {}
                IN fs = [k \in mosaics \cup meta \cup out |->
                           IF k = Key(StackA)
                           THEN [Content("stack", <<<<1>>>>) EXCEPT !.meta = tree]
                           ELSE IF k = Key(OutFile) THEN StaleMerged
                           ELSE LET i == CHOOSE j \in 1..n : k = Key(MosaicFile(j))
                                IN MosaicOf(i - 1, vs[i])]
             /\ mrg = [p \in Procs |->
                        IF p = 1
                        THEN MrgFrame(
                               [i \in 1..n |-> IF kind = "str_image" /\ i = n
                                               THEN Str(MosaicFile(i))
                                               ELSE MosaicFile(i)],
                               kind = "none",
                               IF kind = "str_meta" THEN Str(StackA) ELSE StackA,
                               IF kind = "str_out" THEN Str(OutFile) ELSE OutFile,
                               funcs)
                        ELSE NoMrg]
    /\ fs0 = fs
    /\ env = [tool_installed |-> TRUE, script_present |-> TRUE]
    /\ pc = [Idle EXCEPT ![1] = "mrg_prepare"]
    /\ top = [Idle EXCEPT ![1] = "merge_channels"]
    /\ exc = [p \in Procs |-> "none"]
    /\ calls = [p \in Procs |-> NoCalls]
    /\ tts = [p \in Procs |-> TtsFrame(NoPath, NoPath)]
    /\ msp = [p \in Procs |-> MspFrame(NoPath, NoPath)]
    /\ sti = [p \in Procs |-> StiFrame(<<>>, NoPath, <<>>, <<>>, <<>>, FALSE)]
    /\ drv = [p \in Procs |-> NoDrv]

NextMerge == \E p \in Procs : merge_channels(p)

SpecMerge == InitMerge /\ [][NextMerge]_vars

(***************************************************************************)
(* The claims about merge_channels, checked under SpecMerge.               *)
(***************************************************************************)
\* The call of merge_channels has returned.
Merged(p) == top[p] = "merge_channels" /\ pc[p] = "returned"

\* The first plane of the mosaic at path img when the call began.
FirstPlane(img) == fs0[Key(img)].planes[1][1]

\* C11: when merge_channels returns, the output holds one series of exactly
\* n planes, plane i being the first plane of mosaic i of the list, and its
\* one Image has SizeX / SizeY equal to the pixel width / height of the first
\* mosaic (a single-plane image), whatever the sizes of the other mosaics.
C11_PlanesAndSizeOfFirstMosaic ==
    \A p \in Procs :
        (Merged(p) /\ Len(fs0[Key(mrg[p].image_paths[1])].planes[1]) = 1)
        => LET f == mrg[p]
               out == fs[Key(f.output_path)]
               c0 == fs0[Key(f.image_paths[1])]
           IN
           /\ Len(out.planes) = 1
           /\ Len(out.planes[1]) = Len(f.image_paths)
           /\ \A i \in 1..Len(f.image_paths) :
                 out.planes[1][i] = FirstPlane(f.image_paths[i])
           /\ Len(out.meta.images) = 1
           /\ out.meta.images[1].sizeX = c0.dims[2]
           /\ out.meta.images[1].sizeY = c0.dims[1]

\* Two mosaics of different sizes, the second with two planes, were merged.
C11_Witness ==
    /\ Merged(1)
    /\ Len(mrg[1].image_paths) = 2
    /\ fs0[Key(mrg[1].image_paths[1])].dims = <<2, 3>>
    /\ Len(fs0[Key(mrg[1].image_paths[1])].planes[1]) = 1
    /\ fs0[Key(mrg[1].image_paths[2])].dims = <<4, 5>>
    /\ fs[Key(mrg[1].output_path)].planes[1] = <<100, 101>>
    /\ fs[Key(mrg[1].output_path)].meta.images[1].sizeX = 3

\* The tree after the first k of the functions were applied in list order.
RECURSIVE ApplyAll(_, _, _)
ApplyAll(funcs, k, tree) ==
    IF k = 0 THEN tree
    ELSE ApplyFunc(funcs[k], ApplyAll(funcs, k - 1, tree)).tree

\* C12: merge_channels has no cache.  From the moment its writer is open,
\* whether or not a file was at output_path, every transform has been applied,
\* in list order, to the reconciled tree, the file at output_path carries
\* that tree and holds just the planes written by this call; at return these
\* are one plane per mosaic and the writer was opened exactly once.
C12_AlwaysFreshOutput ==
    \A p \in Procs :
        (top[p] = "merge_channels"
         /\ pc[p] \in {"mrg_plane", "mrg_close", "returned"})
        => LET f == mrg[p]
               out == fs[Key(f.output_path)]
           IN
           /\ calls[p].mrg_writer = 1
           /\ f.k = Len(f.metadata_funcs)
           /\ f.metadata =
                 ApplyAll(f.metadata_funcs, Len(f.metadata_funcs),
                          Reconcile(f.source, f.output_path.name, f.image_shape))
           /\ out.meta = f.metadata
           /\ Len(out.planes[1]) = f.i
           /\ (pc[p] = "returned" => f.i = Len(f.image_paths))

\* A call with both transforms has returned where a file with three planes
\* was at output_path.
C12_Witness ==
    /\ Merged(1)
    /\ Exists(fs0, mrg[1].output_path)
    /\ Len(fs0[Key(mrg[1].output_path)].planes[1]) = 3
    /\ mrg[1].metadata_funcs = <<"add_experimenter_data", "fix_filters_metadata">>
    /\ Len(fs[Key(mrg[1].output_path)].planes[1]) = 2
    /\ fs[Key(mrg[1].output_path)].meta.experimenters = <<UserInfo>>

\* The size reconciliation of the call is done: no transform has run yet.
Reconciled(p) ==
    /\ top[p] = "merge_channels"
    /\ pc[p] \in {"mrg_funcs", "mrg_writer"}
    /\ mrg[p].k = 0

\* C21: after the size reconciliation of merge_channels, for a metadata
\* source with any number of Images (at least one), the tree holds exactly
\* one Image, the former Image 0 of the source renamed to the output file
\* name, with SizeX / SizeY the width / height of the first mosaic (a
\* single-plane image); this is so before any transform has run and before
\* anything is written, and the tree holds one Image from then on.
C21_OneImageAfterReconciliation ==
    \A p \in Procs :
        /\ (Reconciled(p)
            /\ Len(fs0[Key(mrg[p].image_paths[1])].planes[1]) = 1)
           => LET f == mrg[p]
                  c0 == fs0[Key(f.image_paths[1])]
              IN
              /\ Len(f.source.images) >= 1
              /\ f.metadata.images =
                    <<[f.source.images[1] EXCEPT !.name = f.output_path.name,
                                                 !.sizeX = c0.dims[2],
                                                 !.sizeY = c0.dims[1]]>>
              /\ fs = fs0
              /\ calls[p].mrg_writer = 0
        /\ (top[p] = "merge_channels"
            /\ pc[p] \in {"mrg_funcs", "mrg_writer", "mrg_plane", "mrg_close",
                          "returned"})
           => Len(mrg[p].metadata.images) = 1

\* C21, witness: the source had MaxSeries + 1 Images, Image 0 unlike the
\* others, and the reconciliation left Image 0 with the size of the mosaic.
C21_Witness ==
    /\ Reconciled(1)
    /\ pc[1] = "mrg_funcs"
    /\ Len(mrg[1].source.images) = MaxSeries + 1
    /\ mrg[1].source.images[1] # mrg[1].source.images[2]
    /\ Len(fs0[Key(mrg[1].image_paths[1])].planes[1]) = 1
    /\ mrg[1].metadata.images[1].channels = <<2, 1>>
    /\ mrg[1].metadata.images[1].sizeX = 5
    /\ mrg[1].metadata.images[1].sizeY = 4

\* C25: when merge_channels fails in the type validation, while reading the
\* shape of the first mosaic, while loading the metadata source or inside a
\* metadata transform, a file that was at output_path before the call is
\* still there, unchanged (as is every other file); a file that was at
\* output_path is gone or changed only once every transform has returned
\* and the writer has been opened.
C25_OutputKeptUntilTransformsDone ==
    \A p \in Procs :
        top[p] = "merge_channels"
        => LET f == mrg[p]
               failedEarly == pc[p] = "raised" /\ calls[p].mrg_writer = 0
               before == pc[p] \in {"mrg_prepare", "mrg_funcs", "mrg_writer"}
           IN
           /\ (failedEarly \/ before) => fs = fs0
           /\ (/\ Exists(fs0, f.output_path)
               /\ \/ ~Exists(fs, f.output_path)
                  \/ fs[Key(f.output_path)] # fs0[Key(f.output_path)])
              => /\ f.k = Len(f.metadata_funcs)
                 /\ calls[p].mrg_writer = 1

\* C25, witness: with a file at output_path, the first transform has
\* returned and the second has failed; the file is as it was.
C25_Witness ==
    /\ top[1] = "merge_channels"
    /\ pc[1] = "raised"
    /\ exc[1] = "JavaException"
    /\ mrg[1].metadata_funcs = <<"add_experimenter_data", "fix_filters_metadata">>
    /\ mrg[1].k = 1
    /\ Exists(fs0, mrg[1].output_path)
    /\ Exists(fs, mrg[1].output_path)
    /\ fs[Key(mrg[1].output_path)] = StaleMerged

(***************************************************************************)
(* More claims about the driver, checked under Spec.                       *)
(***************************************************************************)
\* tmp_dir / path_basename of an input of the batch.
ScratchOf(d, path) == DirPath(Append(d.tmp_dir.dir, path_basename(path)))

\* C14: in a batch no two inputs are processed against the same scratch
\* directory, and no stage takes a cache hit on a file written in this run
\* for another input: a stack, profiles or mosaics that normalize,
\* generate_profiles or stitch find in the scratch directory were there when
\* the run began.
C14_OwnScratchDirectory ==
    \A p \in Procs :
        (top[p] = "main" /\ StagesCalled(pc[p]) >= 1)
        => LET d == drv[p] IN
           /\ \A j \in 1..(d.i - 1) : ScratchOf(d, d.filepaths[j]) # d.tmp_folder
           /\ (tts[p].hit => Exists(fs0, tts[p].output_path))
           /\ (StagesCalled(pc[p]) >= 3 /\ sti[p].hit
               => search_for_files(fs0, sti[p].output) # {})

(***************************************************************************)
(* SpecCli: the driver with its command-line options.  The batch is drawn  *)
(* from inputs in the input directory and one OME-TIFF input that lies in  *)
(* the output directory; --flip-x and --flip-y are given or not.           *)
(***************************************************************************)
InputD == Path(OutDir, <<"a", ".", "ome", ".", "tif">>)

CliInputs == {InputA, InputB, InputD}

CliBatches ==
    {b \in UNION {[1..n -> CliInputs] : n \in 1..MaxBatch} :
        \A i, j \in DOMAIN b : i # j => b[i] # b[j]}

InitCli ==
    /\ dirs = {<<<<"d1">>>>, OutDir, TmpDir}
    /\ fs = [k \in {Key(x) : x \in CliInputs} |->
                InputContent(CHOOSE x \in CliInputs : Key(x) = k)]
    /\ fs0 = fs
    /\ env \in Machines
    /\ pc = [Idle EXCEPT ![1] = "main"]
    /\ top = [Idle EXCEPT ![1] = "main"]
    /\ exc = [p \in Procs |-> "none"]
    /\ calls = [p \in Procs |-> NoCalls]
    /\ tts = [p \in Procs |-> TtsFrame(NoPath, NoPath)]
    /\ msp = [p \in Procs |-> MspFrame(NoPath, NoPath)]
    /\ sti = [p \in Procs |-> StiFrame(<<>>, NoPath, <<>>, <<>>, <<>>, FALSE)]
    /\ mrg = [p \in Procs |-> NoMrg]
    /\ \E b \in CliBatches, flip_x \in BOOLEAN, flip_y \in BOOLEAN :
          drv = [p \in Procs |->
                  IF p = 1
                  THEN [DrvFrame(b, DirPath(OutDir), DirPath(TmpDir), 1, <<>>, FALSE)
                        EXCEPT !.flip_x = flip_x, !.flip_y = flip_y]
                  ELSE NoDrv]

SpecCli == InitCli /\ [][Next]_vars

\* C15: whenever the driver has the stitching engine called, flip_x and
\* flip_y of the call are the values of --flip-x and --flip-y.
C15_FlipFlagsPassedThrough ==
    \A p \in Procs :
        (top[p] = "main" /\ pc[p] = "sti_engine")
        => /\ sti[p].flip_x = drv[p].flip_x
           /\ sti[p].flip_y = drv[p].flip_y

\* C18: during and after a run of the driver every input file of the batch
\* that existed when the run began still exists with the content it had.
C18_InputNeverMutated ==
    \A p \in Procs :
        top[p] = "main"
        => \A i \in 1..Len(drv[p].filepaths) :
              Exists(fs0, drv[p].filepaths[i])
              => /\ Exists(fs, drv[p].filepaths[i])
                 /\ fs[Key(drv[p].filepaths[i])] = fs0[Key(drv[p].filepaths[i])]

(***************************************************************************)
(* SpecStages: one call of any one of the four stages, as in SpecNormalize, *)
(* SpecProfiles, SpecStitch and SpecMerge.                                 *)
(***************************************************************************)
InitStages == InitNormalize \/ InitProfiles \/ InitStitch \/ InitMerge

NextStages ==
    \E p \in Procs :
        \/ tiles_to_stacks(p)
        \/ make_shading_profiles(p)
        \/ stitch_image(p)
        \/ merge_channels(p)

SpecStages == InitStages /\ [][NextStages]_vars

\* The stage was called with something that is not a Path where a path is
\* required.
WrongKind(p) ==
    CASE top[p] = "tiles_to_stacks" ->
            ~(tts[p].input_path.isPath /\ tts[p].output_path.isPath)
      [] top[p] = "make_shading_profiles" ->
            ~(msp[p].image_path.isPath /\ msp[p].output_dir.isPath)
      [] top[p] = "stitch_image" ->
            \/ \E i \in DOMAIN sti[p].image_files : ~sti[p].image_files[i].isPath
            \/ ~sti[p].output.isPath
      [] top[p] = "merge_channels" ->
            \/ mrg[p].image_paths_none
            \/ \E i \in DOMAIN mrg[p].image_paths : ~mrg[p].image_paths[i].isPath
            \/ ~mrg[p].metadata_path.isPath
            \/ ~mrg[p].output_path.isPath
      [] OTHER -> FALSE

\* The stage has taken its first step.
Started(p) ==
    pc[p] \notin {"idle", "tts_check", "msp_check", "sti_validate", "mrg_prepare"}

\* The call ended with the type error, no collaborator was called and no file
\* was touched.
TypeErrorFirst(p) ==
    /\ pc[p] = "raised"
    /\ exc[p] = "TypeError"
    /\ calls[p] = NoCalls
    /\ fs = fs0
    /\ mrg[p].k = 0

\* C16 as stated: in every stage a wrong kind of path argument ends the call
\* with the type error before any reader, writer, subprocess or engine call
\* and before any file is touched.
C16_TypeErrorInEveryStage ==
    \A p \in Procs : (WrongKind(p) /\ Started(p)) => TypeErrorFirst(p)

\* C16 as amended: this holds in tiles_to_stacks, make_shading_profiles and
\* merge_channels; stitch_image has no such check.
C16_TypeErrorInCheckedStages ==
    \A p \in Procs :
        (WrongKind(p) /\ Started(p) /\ top[p] # "stitch_image")
        => TypeErrorFirst(p)

\* merge_channels was given output_path as a str while every file existed,
\* the output included.
C16_Witness ==
    /\ top[1] = "merge_channels"
    /\ ~mrg[1].output_path.isPath
    /\ Len(mrg[1].image_paths) = 2
    /\ \A i \in 1..2 : Exists(fs, mrg[1].image_paths[i])
    /\ Exists(fs, mrg[1].metadata_path)
    /\ Exists(fs, mrg[1].output_path)
    /\ TypeErrorFirst(1)

(***************************************************************************)
(* The claim about a missing tool or script, checked under Spec.           *)
(***************************************************************************)
\* The last stage the driver called is generate_profiles.
InProfiles(p) ==
    /\ drv[p].log # <<>>
    /\ drv[p].log[Len(drv[p].log)][2] = "generate_profiles"

\* The driver is in stitch_image, called for the current acquisition.
InStitch(p) == pc[p] \in {"sti_validate", "sti_engine", "sti_return"}

\* C17 as stated: with the tool or the script missing, generate_profiles
\* does not raise.
C17_MissingToolOrScriptIsSilent ==
    \A p \in Procs :
        (top[p] = "main" /\ InProfiles(p)
         /\ (~env.tool_installed \/ ~env.script_present))
        => pc[p] # "raised"

\* C17 as amended: with the tool installed, generate_profiles never raises;
\* when the script is missing and the profiles are not both there, it logs
\* the missing script, writes nothing, returns the two canonical paths, and
\* the driver calls stitch_image with these paths as ffp and dfp although a
\* profile is missing.  With the tool itself missing, the driver gets past
\* generate_profiles only by a cache hit: otherwise run_command raises.
C17_MissingScriptIsSilent ==
    \A p \in Procs :
        top[p] = "main"
        => LET f == msp[p]
               ffp_path == Join(f.output_dir, FfpName("shading"))
               dfp_path == Join(f.output_dir, DfpName("shading"))
           IN
           /\ (env.tool_installed /\ InProfiles(p) => pc[p] # "raised")
           /\ (~env.tool_installed /\ (pc[p] = "pi_stitch" \/ InStitch(p))
               => f.hit)
           /\ (env.tool_installed /\ ~env.script_present /\ ~f.hit
               /\ (pc[p] = "pi_stitch" \/ InStitch(p))
               => /\ f.log = <<"script_missing">>
                  /\ f.ret = <<Str(ffp_path), Str(dfp_path)>>
                  /\ ~(Exists(fs, ffp_path) /\ Exists(fs, dfp_path))
                  /\ \A k \in {Key(ffp_path), Key(dfp_path)} :
                        k \in DOMAIN fs => k \in DOMAIN fs0
                  /\ (InStitch(p) => /\ sti[p].ffp = <<Str(ffp_path)>>
                                     /\ sti[p].dfp = <<Str(dfp_path)>>))

\* The script is missing, the tool was run, and stitch_image has been called
\* with the two paths, at which no file exists.
C17_Witness ==
    /\ top[1] = "main"
    /\ pc[1] = "sti_validate"
    /\ env.tool_installed /\ ~env.script_present
    /\ calls[1].tool = 1
    /\ msp[1].log = <<"script_missing">>
    /\ sti[1].ffp = <<msp[1].ret[1]>>
    /\ ~Exists(fs, sti[1].ffp[1])
    /\ ~Exists(fs, sti[1].dfp[1])

(***************************************************************************)
(* The cache of normalize across runs of the driver, checked under Spec.    *)
(***************************************************************************)
\* The stack c lacks planes of the acquisition a.
Partial(c, a) ==
    \E s \in DOMAIN a.planes :
        s \notin DOMAIN c.planes \/ Len(c.planes[s]) < Len(a.planes[s])

\* The run of p has aborted inside the plane copy of normalize.
AbortedInCopy(p) ==
    /\ top[p] = "main"
    /\ pc[p] = "raised"
    /\ exc[p] = "FormatReadError"
    /\ drv[p].log # <<>>
    /\ drv[p].log[Len(drv[p].log)] = <<drv[p].i, "normalize">>
    /\ ~tts[p].hit

\* In a later run, normalize has been called for an input whose stack was
\* there, partial, when the run began.
PartialStackAtStart(p) ==
    /\ top[p] = "main"
    /\ drv[p].run >= 2
    /\ StagesCalled(pc[p]) >= 1
    /\ pc[p] # "tts_check"
    /\ Exists(fs0, tts[p].input_path)
    /\ Exists(fs0, tts[p].output_path)
    /\ Partial(fs0[Key(tts[p].output_path)], fs0[Key(tts[p].input_path)])

\* C22: a stale or corrupt cached file is never detected.  When a run aborts
\* while normalize is copying planes, the partial stack stays at the output
\* path; in every later run normalize takes it as a cache hit, copies no
\* plane and leaves the file as it is, and generate_profiles, stitch and
\* merge are called on the partial file.
C22_PartialStackIsACacheHit ==
    \A p \in Procs :
        /\ AbortedInCopy(p)
           => /\ Exists(fs, tts[p].output_path)
              /\ Partial(fs[Key(tts[p].output_path)], fs[Key(tts[p].input_path)])
        /\ PartialStackAtStart(p)
           => LET stack == tts[p].output_path IN
              /\ tts[p].hit
              /\ tts[p].copied = <<>>
              /\ tts[p].ret = stack
              /\ pc[p] \notin {"tts_reader", "tts_writer", "tts_copy", "tts_close"}
              /\ fs[Key(stack)] = fs0[Key(stack)]
              /\ StagesCalled(pc[p]) >= 2 => msp[p].image_path = stack
              /\ StagesCalled(pc[p]) >= 3 => sti[p].image_files = <<stack>>
              /\ StagesCalled(pc[p]) >= 4 => mrg[p].metadata_path = stack
              /\ pc[p] \in {"mrg_funcs", "mrg_writer", "mrg_plane", "mrg_close",
                            "pi_return"}
                 => mrg[p].source = fs0[Key(stack)].meta

\* C22, witness: the first run aborted in the plane copy; the second run has
\* gone through all four stages on the stack of one plane out of two and has
\* written an output of one plane.
C22_Witness ==
    /\ PartialStackAtStart(1)
    /\ pc[1] = "pi_return"
    /\ drv[1].run = 2
    /\ ~drv[1].prev_done
    /\ drv[1].filepaths = <<InputA>>
    /\ Len(fs[Key(tts[1].output_path)].planes[1]) = 1
    /\ calls[1].tts_reader = 0
    /\ calls[1].engine = 1
    /\ Len(fs[Key(drv[1].output_path)].planes[1]) = 1

(***************************************************************************)
(* SpecConcurrent: two invocations of the driver at once, on the same      *)
(* input, scratch directory and output directory.  Every step of a stage   *)
(* of one may fall between two steps of the other.                         *)
(***************************************************************************)
InitConcurrent ==
    /\ \E hasScratch \in BOOLEAN :
          dirs = {<<<<"d1">>>>, OutDir, TmpDir}
                 \cup (IF hasScratch THEN {ScratchA} ELSE {})
    /\ fs = [k \in {Key(InputA)} |-> InputContent(InputA)]
    /\ fs0 = fs
    /\ env \in {m \in Machines : m.tool_installed}
    /\ pc = [p \in Procs |-> "main"]
    /\ top = [p \in Procs |-> "main"]
    /\ exc = [p \in Procs |-> "none"]
    /\ calls = [p \in Procs |-> NoCalls]
    /\ tts = [p \in Procs |-> TtsFrame(NoPath, NoPath)]
    /\ msp = [p \in Procs |-> MspFrame(NoPath, NoPath)]
    /\ sti = [p \in Procs |-> StiFrame(<<>>, NoPath, <<>>, <<>>, <<>>, FALSE)]
    /\ mrg = [p \in Procs |-> NoMrg]
    /\ drv = [p \in Procs |->
                DrvFrame(<<InputA>>, DirPath(OutDir), DirPath(TmpDir), 1, <<>>,
                         FALSE)]

NextConcurrent == \E p \in Procs : main(p)

SpecConcurrent == InitConcurrent /\ [][NextConcurrent]_vars

\* The invocation p is between its start and its end.
Running(p) == top[p] = "main" /\ pc[p] \notin {"done", "raised"}

\* C23: file-existence checks are the only synchronization between driver
\* invocations.  Of two invocations running against the same scratch
\* directory, neither ever waits for the other; while one is between the
\* existence check of normalize and the creation of the stack, or is about
\* to run the stitching engine, the other, at the same check for the same
\* path, can pass it and run the engine too; and while one is copying planes
\* to the stack, the other, at the existence check, can take the unfinished
\* file as a cache hit.
C23_NoMutualExclusion ==
    \A p, q \in Procs :
        /\ Running(p) => ENABLED main(p)
        /\ (/\ p # q
            /\ Running(p) /\ Running(q)
            /\ pc[p] = "tts_check"
            /\ pc[q] \in {"tts_reader", "tts_writer"}
            /\ tts[p].output_path = tts[q].output_path)
           => ENABLED (TtsCheck(p) /\ pc'[p] = "tts_reader")
        /\ (/\ p # q
            /\ Running(p) /\ Running(q)
            /\ pc[p] = "sti_validate"
            /\ pc[q] = "sti_engine"
            /\ sti[p].output = sti[q].output)
           => ENABLED (StiValidate(p) /\ pc'[p] = "sti_engine")
        /\ (/\ p # q
            /\ Running(p) /\ Running(q)
            /\ pc[p] = "tts_check"
            /\ pc[q] = "tts_copy"
            /\ tts[p].output_path = tts[q].output_path
            /\ calls[p].tts_writer = 0)
           => /\ Partial(fs[Key(tts[q].output_path)], fs[Key(tts[q].input_path)])
              /\ ENABLED (TtsCheck(p) /\ tts'[p].hit)

\* C23, witness: invocation 1 is still copying planes to the stack, which
\* holds one of the two; invocation 2 has taken that file as a cache hit, has
\* run the batch tool on it and is about to hand it to the stitching engine.
C23_Witness ==
    /\ Running(1) /\ Running(2)
    /\ pc[1] = "tts_copy"
    /\ tts[1].copied = <<<<0, 0>>>>
    /\ tts[2].hit
    /\ tts[2].output_path = tts[1].output_path
    /\ calls[2].tts_writer = 0
    /\ calls[2].tool = 1
    /\ pc[2] = "sti_engine"
    /\ sti[2].image_files = <<tts[1].output_path>>

(***************************************************************************)
(* TempFolder (tempfolder.py), checked under SpecTempFolder: one TempFolder *)
(* object, constructed with an explicit path or with a parent, then any     *)
(* sequence of create, purge and remove calls, while its user puts files    *)
(* and nested sub-directories in it.                                        *)
(***************************************************************************)
\* Two values of str(uuid.uuid4()), one character per element.
Uuids ==
    {<<"3","f","a","0","9","c","1","e","-","7","b","2","d","-","4","a","6","1",
       "-","9","e","0","5","-","c","8","d","4","1","f","7","a","2","b","6","0">>,
     <<"0","1","2","3","4","5","6","7","-","8","9","a","b","-","4","c","d","e",
       "-","8","f","0","1","-","2","3","4","5","6","7","8","9","a","b","c","d">>}

\* str.upper, on one character.
upper(c) ==
    CASE c = "a" -> "A" [] c = "b" -> "B" [] c = "c" -> "C"
      [] c = "d" -> "D" [] c = "e" -> "E" [] c = "f" -> "F"
      [] OTHER -> c

\* str(uuid.uuid4()).upper()[:8]
rand_id(u) == SubSeq([i \in DOMAIN u |-> upper(u[i])], 1, 8)

\* The directory the folders are made in, and the explicit path of a folder.
TfBase == <<<<"t">>>>
TfPath == DirPath(Append(TfBase, <<"temp_folder">>))

\* The sub-directory of d nested k deep, and the file the user puts in a
\* directory.
RECURSIVE Nested(_, _)
Nested(d, k) == IF k = 0 THEN d ELSE Append(Nested(d, k - 1), <<"sub_folder">>)
TestFile == <<"test_file", ".", "txt">>

\* A call of the object: the error it logged, and the directories before it
\* (the files before it are in fs0).
TfCall(call, error, ds) == [call |-> call, error |-> error, dirs0 |-> ds]

\* path: self.path (NoPath: never set); how: which argument gave it;
\* last: the last call, or "use" once the user has touched the folder since;
\* last_change: the last call after which the path is a directory when it was
\* not before, or the reverse; existed: whether it was one at construction.
TfFrame(path, how, existed) ==
    [path |-> path, how |-> how, existed |-> existed,
     last |-> TfCall("none", "none", {}), last_change |-> "none", ncalls |-> 0]

\* __init__, lines 14-43: exactly one of the two arguments must be given;
\* otherwise the error is logged and self.path is not set.
TfInit(p) ==
    /\ pc[p] = "tf_init"
    /\ \E temp_folder_path \in {NoPath, TfPath},
          parent_folder_path \in {NoPath, DirPath(TfBase)},
          u \in Uuids :
          LET path == IF temp_folder_path.isPath = parent_folder_path.isPath
                      THEN NoPath
                      ELSE IF temp_folder_path.isPath
                      THEN temp_folder_path
                      ELSE DirPath(Append(parent_folder_path.dir, rand_id(u)))
              how == IF ~path.isPath THEN "unset"
                     ELSE IF temp_folder_path.isPath THEN "explicit" ELSE "parent"
          IN drv' = [drv EXCEPT ![p] = TfFrame(path, how, path.dir \in dirs)]
    /\ pc' = [pc EXCEPT ![p] = "tf_ready"]
    /\ UNCHANGED <<fs, fs0, dirs, env, top, exc, calls, tts, msp, sti, mrg>>

\* What a call leaves in the frame.
TfDone(p, call, error, ds) ==
    drv' = [drv EXCEPT
              ![p].last = TfCall(call, error, dirs),
              ![p].last_change =
                  IF (drv[p].path.dir \in dirs) # (drv[p].path.dir \in ds)
                  THEN call ELSE @,
              ![p].ncalls = @ + 1]

\* create(), lines 45-59.  Without self.path the AttributeError of line 49
\* is not caught.
TfCreate(p) ==
    /\ pc[p] = "tf_ready"
    /\ drv[p].ncalls < MaxCalls
    /\ IF ~drv[p].path.isPath
       THEN Raise(p, "AttributeError") /\ UNCHANGED <<fs0, dirs, drv>>
       ELSE LET o == create(fs, dirs, drv[p].path) IN
            /\ dirs' = o.dirs
            /\ fs0' = fs
            /\ TfDone(p, "create", o.error, o.dirs)
            /\ UNCHANGED <<pc, exc>>
    /\ UNCHANGED <<fs, env, top, calls, tts, msp, sti, mrg>>

\* The mutant of purge: only the files directly in the folder are unlinked.
purge_FilesOnly(f, ds, path) ==
    IF path.dir \notin ds
    THEN [error |-> IF PathExists(f, ds, path.dir)
                    THEN "NotADirectoryError" ELSE "FileNotFoundError",
          fs |-> f, dirs |-> ds]
    ELSE [error |-> "none", dirs |-> ds,
          fs |-> [k \in {x \in DOMAIN f : x[1] # path.dir} |-> f[k]]]

\* purge(), lines 61-78: every entry of the folder that is a directory is
\* removed with all below it (shutil.rmtree), every other entry is unlinked;
\* the error of iterdir (no directory at the path) is logged.
purge(f, ds, path) ==
    IF path.dir \notin ds
    THEN [error |-> IF PathExists(f, ds, path.dir)
                    THEN "NotADirectoryError" ELSE "FileNotFoundError",
          fs |-> f, dirs |-> ds]
    ELSE LET subs == {d \in ds : d # <<>> /\ Parent(d) = path.dir}
             gone(d) == \E sub \in subs : IsPrefix(sub, d)
         IN [error |-> "none",
             dirs |-> {d \in ds : ~gone(d)},
             fs |-> [k \in {x \in DOMAIN f : x[1] # path.dir /\ ~gone(x[1])}
                     |-> f[k]]]

\* pathlib.Path.rmdir: the error it raises.
rmdir(f, ds, d) ==
    IF d \notin ds
    THEN IF PathExists(f, ds, d) THEN "NotADirectoryError" ELSE "FileNotFoundError"
    ELSE IF \/ \E x \in ds : x # <<>> /\ Parent(x) = d
            \/ \E k \in DOMAIN f : k[1] = d
    THEN "OSError"
    ELSE "none"

\* remove(), lines 80-92: purge, then rmdir, whose error is logged.
remove(f, ds, path) ==
    LET o == purge(f, ds, path)
        error == rmdir(o.fs, o.dirs, path.dir)
    IN [error |-> error, fs |-> o.fs,
        dirs |-> IF error = "none" THEN o.dirs \ {path.dir} ELSE o.dirs]

TfPurge(p) ==
    /\ pc[p] = "tf_ready"
    /\ drv[p].ncalls < MaxCalls
    /\ IF ~drv[p].path.isPath
       THEN Raise(p, "AttributeError") /\ UNCHANGED <<fs, fs0, dirs, drv>>
       ELSE LET o == purge(fs, dirs, drv[p].path) IN
            /\ fs' = o.fs
            /\ dirs' = o.dirs
            /\ fs0' = fs
            /\ TfDone(p, "purge", o.error, o.dirs)
            /\ UNCHANGED <<pc, exc>>
    /\ UNCHANGED <<env, top, calls, tts, msp, sti, mrg>>

TfRemove(p) ==
    /\ pc[p] = "tf_ready"
    /\ drv[p].ncalls < MaxCalls
    /\ IF ~drv[p].path.isPath
       THEN Raise(p, "AttributeError") /\ UNCHANGED <<fs, fs0, dirs, drv>>
       ELSE LET o == remove(fs, dirs, drv[p].path) IN
            /\ fs' = o.fs
            /\ dirs' = o.dirs
            /\ fs0' = fs
            /\ TfDone(p, "remove", o.error, o.dirs)
            /\ UNCHANGED <<pc, exc>>
    /\ UNCHANGED <<env, top, calls, tts, msp, sti, mrg>>

\* The user of the folder makes a sub-directory in it or below it
\* (test_tempfolder.py line 46: sub_folder.mkdir()).
TfMkSub(p) ==
    /\ pc[p] = "tf_ready"
    /\ drv[p].path.isPath
    /\ \E k \in 1..MaxDepth :
          LET d == Nested(drv[p].path.dir, k) IN
          /\ mkdir(fs, dirs, d) = "none"
          /\ dirs' = dirs \cup {d}
    /\ drv' = [drv EXCEPT ![p].last.call = "use"]
    /\ UNCHANGED <<fs, fs0, env, pc, top, exc, calls, tts, msp, sti, mrg>>

\* The user writes a file in the folder or in a sub-directory of it
\* (test_tempfolder.py lines 47-49).
TfWrite(p) ==
    /\ pc[p] = "tf_ready"
    /\ drv[p].path.isPath
    /\ \E k \in 0..MaxDepth :
          LET d == Nested(drv[p].path.dir, k) IN
          /\ d \in dirs
          /\ <<d, TestFile>> \notin DOMAIN fs
          /\ fs' = WriteFile(fs, <<d, TestFile>>, Content("text", <<>>))
    /\ drv' = [drv EXCEPT ![p].last.call = "use"]
    /\ UNCHANGED <<fs0, dirs, env, pc, top, exc, calls, tts, msp, sti, mrg>>

\* Before construction: the parent directory exists or not, and at the
\* explicit path there is nothing, a file, or a directory, empty or holding
\* files and sub-directories.
InitTempFolder ==
    /\ \E at \in {"nothing", "file", "empty", "full", "no_parent"} :
          /\ dirs = (IF at = "no_parent" THEN {} ELSE {TfBase})
                    \cup (IF at \in {"empty", "full"} THEN {TfPath.dir} ELSE {})
                    \cup (IF at = "full"
                          THEN {Nested(TfPath.dir, k) : k \in 1..MaxDepth} ELSE {})
          /\ fs = [k \in (IF at = "file" THEN {FileKey(TfPath.dir)} ELSE {})
                         \cup (IF at = "full"
                               THEN {<<Nested(TfPath.dir, k), TestFile>> :
                                       k \in 0..MaxDepth}
                               ELSE {})
                   |-> Content("text", <<>>)]
    /\ fs0 = fs
    /\ env = [tool_installed |-> TRUE, script_present |-> TRUE]
    /\ pc = [Idle EXCEPT ![1] = "tf_init"]
    /\ top = [Idle EXCEPT ![1] = "TempFolder"]
    /\ exc = [p \in Procs |-> "none"]
    /\ calls = [p \in Procs |-> NoCalls]
    /\ tts = [p \in Procs |-> TtsFrame(NoPath, NoPath)]
    /\ msp = [p \in Procs |-> MspFrame(NoPath, NoPath)]
    /\ sti = [p \in Procs |-> StiFrame(<<>>, NoPath, <<>>, <<>>, <<>>, FALSE)]
    /\ mrg = [p \in Procs |-> NoMrg]
    /\ drv = [p \in Procs |-> NoDrv]

NextTempFolder ==
    \E p \in Procs :
        \/ TfInit(p)
        \/ TfCreate(p)
        \/ TfPurge(p)
        \/ TfRemove(p)
        \/ TfMkSub(p)
        \/ TfWrite(p)

SpecTempFolder == InitTempFolder /\ [][NextTempFolder]_vars

\* The TempFolder object is constructed and its last step was the call.
TfAfter(call) ==
    /\ top[1] = "TempFolder"
    /\ pc[1] = "tf_ready"
    /\ drv[1].path.isPath
    /\ drv[1].last.call = call

\* C19: after create(), when the folder path (given explicitly, or generated
\* as an 8-character name directly under the given parent) did not exist and
\* its parent did, the path is a directory; when the path existed, create()
\* has failed (the error is logged) and the directories and the files, with
\* their contents, are what they were.
C19_CreateMakesOrFails ==
    TfAfter("create")
    => LET f == drv[1]
           d == f.path.dir
           existed == PathExists(fs0, f.last.dirs0, d)
       IN /\ f.how = "parent"
             => Parent(d) = TfBase /\ Len(d[Len(d)]) = 8
          /\ (~existed /\ Parent(d) \in f.last.dirs0)
             => d \in dirs /\ f.last.error = "none"
          /\ existed
             => /\ f.last.error = "FileExistsError"
                /\ dirs = f.last.dirs0
                /\ fs = fs0

\* C19, witness: a folder that create() made, that its user filled, and on
\* which a second create() has failed.
C19_Witness ==
    /\ TfAfter("create")
    /\ drv[1].how = "parent"
    /\ drv[1].last_change = "create"
    /\ drv[1].last.error = "FileExistsError"
    /\ <<Nested(drv[1].path.dir, 1), TestFile>> \in DOMAIN fs

\* Nothing is in the directory d, at any depth.
Empty(f, ds, d) ==
    /\ \A x \in ds : IsPrefix(d, x) => x = d
    /\ \A k \in DOMAIN f : ~IsPrefix(d, k[1])

\* C20: after purge() on a folder that was a directory, the folder is still
\* a directory and holds no entry at any depth; after remove() no directory
\* is at the folder's path; and after any sequence of create, purge and
\* remove calls, the folder is a directory exactly when the last call that
\* changed whether it is one was create (as it was at construction when no
\* call changed it).
C20_PurgeEmptiesRemoveDeletes ==
    (top[1] = "TempFolder" /\ pc[1] = "tf_ready" /\ drv[1].path.isPath)
    => LET f == drv[1]
           d == f.path.dir
       IN /\ (f.last.call = "purge" /\ d \in f.last.dirs0)
             => d \in dirs /\ Empty(fs, dirs, d)
          /\ f.last.call = "remove" => d \notin dirs
          /\ f.last_change \in {"none", "create", "remove"}
          /\ f.last_change = "none" => ((d \in dirs) <=> f.existed)
          /\ f.last_change # "none" => ((d \in dirs) <=> f.last_change = "create")

\* C20, witness: remove() has deleted a folder that create() had made and
\* that held a file and sub-directories nested MaxDepth deep, the deepest
\* holding a file.
C20_Witness ==
    /\ TfAfter("remove")
    /\ drv[1].last_change = "remove"
    /\ ~drv[1].existed
    /\ Nested(drv[1].path.dir, MaxDepth) \in drv[1].last.dirs0
    /\ <<Nested(drv[1].path.dir, MaxDepth), TestFile>> \in DOMAIN fs0
    /\ <<drv[1].path.dir, TestFile>> \in DOMAIN fs0
    /\ Empty(fs, dirs, drv[1].path.dir)

====
